---- MODULE Spec2Model ----
(***************************************************************************)
(* A model of ko's resolve pipeline:                                       *)
(*   - resolveFilesToWriter, the driver that resolves files concurrently   *)
(*     and emits them in input order (SpecDriver);                         *)
(*   - the builder stack composed by makeBuilder: future cache around      *)
(*     limiter around the actual builder (SpecBuild);                      *)
(*   - the publisher stack composed by makePublisher (SpecPublish).        *)
(***************************************************************************)
EXTENDS Naturals, Integers, Sequences, FiniteSets, TLC

(***************************************************************************)
(* Bounds of the model.                                                    *)
(***************************************************************************)
MaxFiles == 3
NumReq == 2
MaxInvalidate == 1
MaxConcurrentBuilds == 2
MaxManifests == 2
NumPub == 3

\* File names that options.EnumerateFiles may stream ("-" is stdin).
Files == {"a.yaml", "-"}

\* The document delimiter literal written after every document.
Delim == <<"delim", "\n---\n">>

\* The nil resolvedFuture: a nil channel is never available to receive on.
NoChan == 0

VARIABLES
    \* ---- resolveFilesToWriter ----
    input,      \* file names EnumerateFiles has still to send on fs
    fs,         \* the fs channel: "open", "closed" (by the sender), "nil"
    received,   \* history: the file names the driver received, in order
    futures,    \* the list of resolvedFuture channels (ids), head first
    ch,         \* per channel id: position of the goroutine that owns it
    sm,         \* the sync.Map filename -> recorded import paths
    out,        \* what has been written to the output, element by element
    emitted,    \* history: ids of the channels whose bytes were written
    outClosed,  \* out.Close() has run
    pc,         \* the driver: "loop" or "done"
    exited,     \* log.Fatalf has ended the process
    \* ---- the builder returned by makeBuilder ----
    limit,      \* bo.ConcurrentBuilds, the size of the limiter's semaphore
    results,    \* the future cache: reference -> id of its build future
    future,     \* the build futures ever created, by id
    semaphore,  \* number of limiter tokens currently held
    th,         \* the threads: requesters and the tasks that fill futures
    started,    \* history: per reference, the wrapped-builder invocations
    toolchain,  \* history: per reference, the toolchain adapter invocations
    invalidated, \* history: per reference, the number of invalidate calls
    \* ---- the publisher returned by makePublisher ----
    pubResults, \* the publish cache: key -> id of its publish future
    published,  \* the inner Publish invocations (one per future), by id
    pub,        \* the Publish calls, in the order they were made
    \* ---- the builder returned by build.NewGo (gobuild) ----
    osEnv,      \* os.Environ(): the environment of the ko process
    goIn,       \* the input of the run: reference, base, platform
    disk,       \* the metadata files of the stable output directories
    buildToDiff, \* g.buildToDiff: file path -> (build-id -> diff-id)
    diffToDesc, \* g.diffToDesc: file path -> (diff-id -> descriptor)
    goOut,      \* what the last call returned, with what it logged
    written,    \* history: per file, the metadata last written with success
    srcVer      \* history: the number of source versions compiled so far

driverVars == <<input, fs, received, futures, ch, sm, out, emitted,
                outClosed, pc, exited>>

buildVars == <<limit, results, future, semaphore, th, started, toolchain,
               invalidated>>

pubVars == <<pubResults, published, pub>>

goVars == <<osEnv, goIn, disk, buildToDiff, diffToDesc, goOut, written,
            srcVer>>

vars == <<driverVars, buildVars, pubVars, goVars>>

(***************************************************************************)
(* Helpers on sequences.                                                   *)
(***************************************************************************)
RECURSIVE SeqsUpTo(_, _)
SeqsUpTo(S, n) ==
    IF n = 0 THEN {<<>>}
    ELSE LET shorter == SeqsUpTo(S, n - 1)
         IN  shorter \cup {Append(s, x) : s \in shorter, x \in S}

Range(s) == {s[i] : i \in 1..Len(s)}

(***************************************************************************)
(* resolveFilesToWriter                                                    *)
(***************************************************************************)
\* The bytes resolveFile returns for file f when it succeeds.
resolveFile(f) == <<"doc", f>>

\* The channel the select listens to besides fs: the head of the list.
bf_last == IF Len(futures) > 0 THEN futures[Len(futures)] ELSE NoChan
bf == IF Len(futures) > 0 THEN futures[1] ELSE NoChan

\* futures = futures[1:]
Dequeue_two(s) == IF Len(s) > 1 THEN Tail(Tail(s)) ELSE Tail(s)
Dequeue(s) == Tail(s)

\* out.Write(append(b, []byte("\n---\n")...))
WriteBody_delimFirst(b) == <<Delim, b>>
WriteBody(b) == <<b, Delim>>

DriverInit ==
    /\ input \in SeqsUpTo(Files, MaxFiles)
    /\ fs = "open"
    /\ received = <<>>
    /\ futures = <<>>
    /\ ch = <<>>
    /\ sm = <<>>
    /\ out = <<>>
    /\ emitted = <<>>
    /\ outClosed = FALSE
    /\ pc = "loop"
    /\ exited = FALSE

Running == pc = "loop" /\ ~exited

\* options.EnumerateFiles closes the channel once every name is sent.
EnumerateClose ==
    /\ ~exited
    /\ fs = "open"
    /\ input = <<>>
    /\ fs' = "closed"
    /\ UNCHANGED <<input, received, futures, ch, sm, out, emitted,
                   outClosed, pc, exited>>
    /\ UNCHANGED <<buildVars, pubVars, goVars>>

\* case f, ok := <-fs  with ok: make a future, append it, start the goroutine.
DriverRecvFile ==
    /\ Running
    /\ fs = "open"
    /\ input # <<>>
    /\ LET f  == Head(input)
           id == Len(received) + 1
       IN  /\ received' = Append(received, f)
           /\ futures' = Append(futures, id)
           /\ ch' = Append(ch, "resolve")
    /\ input' = Tail(input)
    /\ UNCHANGED <<fs, sm, out, emitted, outClosed, pc, exited>>
    /\ UNCHANGED <<buildVars, pubVars, goVars>>

\* case f, ok := <-fs  with !ok: fs = nil.
DriverRecvClosed ==
    /\ Running
    /\ fs = "closed"
    /\ fs' = "nil"
    /\ UNCHANGED <<input, received, futures, ch, sm, out, emitted,
                   outClosed, pc, exited>>
    /\ UNCHANGED <<buildVars, pubVars, goVars>>

\* case b, ok := <-bf: dequeue the head, write the body if ok.
DriverRecvFuture ==
    /\ Running
    /\ bf # NoChan
    /\ ch[bf] \in {"send", "closed"}
    /\ LET ok == ch[bf] = "send"
           b  == resolveFile(received[bf])
       IN  /\ futures' = Dequeue(futures)
           /\ out' = IF ok THEN out \o WriteBody(b) ELSE out
           /\ emitted' = IF ok THEN Append(emitted, bf) ELSE emitted
           /\ ch' = IF ok THEN [ch EXCEPT ![bf] = "return"] ELSE ch
    /\ UNCHANGED <<input, fs, received, sm, outClosed, pc, exited>>
    /\ UNCHANGED <<buildVars, pubVars, goVars>>

\* The loop is left when no future is queued and fs is nil.
LoopExit_fsOnly == fs = "nil"
LoopExit == Len(futures) = 0 /\ fs = "nil"

\* The loop's break and the deferred out.Close().
DriverBreak ==
    /\ Running
    /\ LoopExit
    /\ pc' = "done"
    /\ outClosed' = TRUE
    /\ UNCHANGED <<input, fs, received, futures, ch, sm, out, emitted, exited>>
    /\ UNCHANGED <<buildVars, pubVars, goVars>>

\* The goroutine: resolveFile returned without error.
GoResolveOk(id) ==
    /\ ~exited
    /\ id \in DOMAIN ch
    /\ ch[id] = "resolve"
    /\ ch' = [ch EXCEPT ![id] = "store"]
    /\ UNCHANGED <<input, fs, received, futures, sm, out, emitted,
                   outClosed, pc, exited>>
    /\ UNCHANGED <<buildVars, pubVars, goVars>>

\* What the goroutine does with an error: lg := log.Fatalf ends the process;
\* a logger that returns would let the deferred close(ch) run.
lg_Printf == "closed"
lg == "fatal"

\* The goroutine: resolveFile returned an error, lg is called.
GoResolveErr(id) ==
    /\ ~exited
    /\ id \in DOMAIN ch
    /\ ch[id] = "resolve"
    /\ ch' = [ch EXCEPT ![id] = lg]
    /\ UNCHANGED <<input, fs, received, futures, sm, out, emitted,
                   outClosed, pc, exited>>
    /\ UNCHANGED <<buildVars, pubVars, goVars>>

\* log.Fatalf ends the process with os.Exit(1): no deferred call runs.
GoFatalExit(id) ==
    /\ ~exited
    /\ id \in DOMAIN ch
    /\ ch[id] = "fatal"
    /\ exited' = TRUE
    /\ UNCHANGED <<input, fs, received, futures, ch, sm, out, emitted,
                   outClosed, pc>>
    /\ UNCHANGED <<buildVars, pubVars, goVars>>

\* sync.Map.Store: the entry of key f is set, or replaced.
Store_none(m, f, id) == m
Store(m, f, id) ==
    [g \in DOMAIN m \cup {f} |-> IF g = f THEN id ELSE m[g]]

\* sm.Store(f, recordingBuilder.ImportPaths); then the goroutine offers ch <- b.
GoStore(id) ==
    /\ ~exited
    /\ id \in DOMAIN ch
    /\ ch[id] = "store"
    /\ sm' = Store(sm, received[id], id)
    /\ ch' = [ch EXCEPT ![id] = "send"]
    /\ UNCHANGED <<input, fs, received, futures, out, emitted,
                   outClosed, pc, exited>>
    /\ UNCHANGED <<buildVars, pubVars, goVars>>

\* After the send went through the goroutine returns: defer close(ch).
GoClose(id) ==
    /\ ~exited
    /\ id \in DOMAIN ch
    /\ ch[id] = "return"
    /\ ch' = [ch EXCEPT ![id] = "closed"]
    /\ UNCHANGED <<input, fs, received, futures, sm, out, emitted,
                   outClosed, pc, exited>>
    /\ UNCHANGED <<buildVars, pubVars, goVars>>

DriverNext ==
    \/ EnumerateClose
    \/ DriverRecvFile
    \/ DriverRecvClosed
    \/ DriverRecvFuture
    \/ DriverBreak
    \/ \E id \in DOMAIN ch : GoResolveOk(id)
    \/ \E id \in DOMAIN ch : GoResolveErr(id)
    \/ \E id \in DOMAIN ch : GoFatalExit(id)
    \/ \E id \in DOMAIN ch : GoStore(id)
    \/ \E id \in DOMAIN ch : GoClose(id)


(***************************************************************************)
(* The builder: makeBuilder composes, outermost first, the future cache    *)
(* (build.NewCaching), the limiter (build.NewLimiter) and the actual       *)
(* builder (build.NewGo).  A thread that calls Build walks down the stack. *)
(***************************************************************************)
\* References requested from the builder.
RefOrder == <<"ko://a", "ko://b">>
Refs == {RefOrder[i] : i \in 1..Len(RefOrder)}

\* How a wrapped build can end.
Outcomes == {"image", "error"}

makeBuilder_noCaching == <<"Limiter", "Go">>
makeBuilder_noLimiter == <<"Caching", "Go">>
makeBuilder == <<"Caching", "Limiter", "Go">>

Requesters == 1..NumReq
\* The task that runs the work of future f.
TaskOf(f) == NumReq + f
Threads == 1..(2 * NumReq)

NoResult == [kind |-> "none", build |-> 0]

NewThread ==
    [ref |-> "", depth |-> 0, base |-> 0, pc |-> "idle", res |-> NoResult,
     fut |-> 0, hit |-> FALSE, gen |-> 0, acquired |-> 0, build |-> 0,
     calls |-> 0]

BuildInit ==
    /\ limit \in 1..MaxConcurrentBuilds
    /\ results = <<>>
    /\ future = <<>>
    /\ semaphore = 0
    /\ th = [t \in Threads |-> NewThread]
    /\ started = [r \in Refs |-> 0]
    /\ toolchain = [r \in Refs |-> 0]
    /\ invalidated = [r \in Refs |-> 0]

\* Where a thread is after a layer returned into depth d: a requester whose
\* call returned is done, a task goes on to store the result in its future.
Returned(t, d) ==
    IF d = th[t].base /\ t \in Requesters THEN "done" ELSE "ret"

\* The layer whose Build the thread is in (or about to enter).
Layer(t) ==
    IF th[t].depth \in 1..Len(makeBuilder) THEN makeBuilder[th[t].depth]
    ELSE "caller"

\* The references requested so far.
Requested == {th[p].ref : p \in {x \in Requesters : th[x].pc # "idle"}}

\* A requester calls builder.Build(r) on the outermost layer.  Requesters
\* and references are interchangeable: requesters call in the order of
\* their ids and a reference not requested before is the next of RefOrder.
Request(q, r) ==
    /\ th[q].pc = "idle"
    /\ \A p \in Requesters : p < q => th[p].pc # "idle"
    /\ \/ r \in Requested
       \/ /\ Cardinality(Requested) < Len(RefOrder)
          /\ r = RefOrder[Cardinality(Requested) + 1]
    /\ th' = [th EXCEPT ![q] = [@ EXCEPT !.ref = r, !.pc = "enter",
                                         !.depth = 1]]
    /\ UNCHANGED <<limit, results, future, semaphore, started, toolchain,
                   invalidated>>
    /\ UNCHANGED <<driverVars, pubVars, goVars>>

\* Caching.Build under the lock: return the recorded future of the
\* reference, or create and record one whose work is inner.Build(ref).
CachingBuild(t) ==
    /\ th[t].pc = "enter"
    /\ Layer(t) = "Caching"
    /\ LET r == th[t].ref
           f == Len(future) + 1
       IN  IF r \in DOMAIN results
           THEN /\ th' = [th EXCEPT ![t] = [@ EXCEPT !.pc = "await",
                                               !.fut = results[r],
                                               !.hit = TRUE,
                                               !.gen = invalidated[r]]]
                /\ UNCHANGED <<results, future>>
           ELSE /\ future' = Append(future,
                                [ref |-> r, state |-> "pending",
                                 result |-> NoResult, gen |-> invalidated[r]])
                /\ results' = [x \in DOMAIN results \cup {r} |->
                                  IF x = r THEN f ELSE results[x]]
                /\ th' = [th EXCEPT
                            ![t] = [@ EXCEPT !.pc = "await", !.fut = f,
                                             !.gen = invalidated[r]],
                            ![TaskOf(f)] = [@ EXCEPT !.ref = r,
                                             !.pc = "enter",
                                             !.depth = th[t].depth + 1,
                                             !.base = th[t].depth,
                                             !.fut = f]]
    /\ UNCHANGED <<limit, semaphore, started, toolchain,
                   invalidated>>
    /\ UNCHANGED <<driverVars, pubVars, goVars>>

\* What future.Get hands to an awaiter: the result stored in the future.
FutureResult_unset(t) ==
    IF th[t].hit THEN NoResult ELSE future[th[t].fut].result
FutureResult(t) == future[th[t].fut].result

\* future.Get: once the future holds its result, every awaiter reads it.
FutureGet(t) ==
    /\ th[t].pc = "await"
    /\ future[th[t].fut].state = "done"
    /\ th' = [th EXCEPT ![t] = [@ EXCEPT !.pc = Returned(t, th[t].depth - 1),
                                         !.depth = @ - 1,
                                         !.res = FutureResult(t)]]
    /\ UNCHANGED <<limit, results, future, semaphore, started, toolchain,
                   invalidated>>
    /\ UNCHANGED <<driverVars, pubVars, goVars>>

RECURSIVE SumOver(_, _)
SumOver(f, S) ==
    IF S = {} THEN 0
    ELSE LET x == CHOOSE y \in S : TRUE IN f[x] + SumOver(f, S \ {x})

Invalidations == SumOver(invalidated, Refs)

Invalidate_keep(r) ==
    /\ Invalidations < MaxInvalidate
    /\ r \in DOMAIN results
    /\ invalidated' = [invalidated EXCEPT ![r] = @ + 1]
    /\ UNCHANGED <<limit, results, future, semaphore, th, started, toolchain>>
    /\ UNCHANGED <<driverVars, pubVars, goVars>>

\* Caching.Invalidate(r) under the lock: delete(results, r).  Only calls that
\* find an entry are enumerated: deleting an absent key changes nothing.
Invalidate(r) ==
    /\ Invalidations < MaxInvalidate
    /\ r \in DOMAIN results
    /\ results' = [x \in DOMAIN results \ {r} |-> results[x]]
    /\ invalidated' = [invalidated EXCEPT ![r] = @ + 1]
    /\ UNCHANGED <<limit, future, semaphore, th, started, toolchain>>
    /\ UNCHANGED <<driverVars, pubVars, goVars>>

\* Limiter.Build: acquire one of the tokens, then forward to the inner Build.
LimiterAcquire(t) ==
    /\ th[t].pc = "enter"
    /\ Layer(t) = "Limiter"
    /\ semaphore < limit
    /\ semaphore' = semaphore + 1
    /\ th' = [th EXCEPT ![t] = [@ EXCEPT !.depth = @ + 1,
                                         !.acquired = @ + 1]]
    /\ UNCHANGED <<limit, results, future, started, toolchain,
                   invalidated>>
    /\ UNCHANGED <<driverVars, pubVars, goVars>>

\* Limiter.Build: the inner Build returned (result or error), release.
LimiterRelease(t) ==
    /\ th[t].pc = "ret"
    /\ th[t].depth # th[t].base
    /\ Layer(t) = "Limiter"
    /\ semaphore' = semaphore - 1
    /\ th' = [th EXCEPT ![t] = [@ EXCEPT !.pc = Returned(t, th[t].depth - 1),
                                         !.depth = @ - 1]]
    /\ UNCHANGED <<limit, results, future, started, toolchain,
                   invalidated>>
    /\ UNCHANGED <<driverVars, pubVars, goVars>>

\* gobuild.Build is invoked.
GoBuildStart(t) ==
    /\ th[t].pc = "enter"
    /\ Layer(t) = "Go"
    /\ started' = [started EXCEPT ![th[t].ref] = @ + 1]
    /\ th' = [th EXCEPT ![t] = [@ EXCEPT !.pc = "building", !.build = t]]
    /\ UNCHANGED <<limit, results, future, semaphore, toolchain, invalidated>>
    /\ UNCHANGED <<driverVars, pubVars, goVars>>

\* buildOne invokes the toolchain adapter g.build: once for an image base,
\* once per manifest (platform) for an index base (buildAll).
GoBuildOne(t) ==
    /\ th[t].pc = "building"
    /\ th[t].calls < MaxManifests
    /\ toolchain' = [toolchain EXCEPT ![th[t].ref] = @ + 1]
    /\ th' = [th EXCEPT ![t] = [@ EXCEPT !.calls = @ + 1]]
    /\ UNCHANGED <<limit, results, future, semaphore, started, invalidated>>
    /\ UNCHANGED <<driverVars, pubVars, goVars>>

\* gobuild.Build returns a result (image or index) or an error.
GoBuildEnd(t, k) ==
    /\ th[t].pc = "building"
    /\ th' = [th EXCEPT ![t] = [@ EXCEPT !.pc = Returned(t, th[t].depth - 1),
                                         !.depth = @ - 1,
                                         !.calls = 0,
                                         !.res = [kind |-> k,
                                                  build |-> th[t].build]]]
    /\ UNCHANGED <<limit, results, future, semaphore, started, toolchain,
                   invalidated>>
    /\ UNCHANGED <<driverVars, pubVars, goVars>>

\* The work of a future returned: its result is stored in the future.
FutureComplete(t) ==
    /\ th[t].pc = "ret"
    /\ th[t].depth = th[t].base
    /\ future' = [future EXCEPT ![th[t].fut] =
                      [@ EXCEPT !.state = "done", !.result = th[t].res]]
    /\ th' = [th EXCEPT ![t] = [@ EXCEPT !.pc = "done"]]
    /\ UNCHANGED <<limit, results, semaphore, started, toolchain,
                   invalidated>>
    /\ UNCHANGED <<driverVars, pubVars, goVars>>

BuildNext ==
    \/ \E q \in Requesters, r \in Refs : Request(q, r)
    \/ \E t \in Threads : CachingBuild(t)
    \/ \E t \in Threads : FutureGet(t)
    \/ \E r \in Refs : Invalidate(r)
    \/ \E t \in Threads : LimiterAcquire(t)
    \/ \E t \in Threads : LimiterRelease(t)
    \/ \E t \in Threads : GoBuildStart(t)
    \/ \E t \in Threads, k \in Outcomes : GoBuildEnd(t, k)
    \/ \E t \in Threads : FutureComplete(t)

(***************************************************************************)
(* The publisher: makePublisher wraps the inner publisher (daemon or       *)
(* registry) in the memoizing publisher publish.NewCaching.                *)
(***************************************************************************)
\* Content digests of built artifacts, and reference strings.
Digests == {"sha256:1", "sha256:2"}
RefStrings == {"foo", "bar"}

\* How an inner Publish can end.
PubOutcomes == {"reference", "error"}

makePublisher_noCaching == <<"Inner">>
makePublisher == <<"Caching", "Inner">>

Callers == 1..NumPub

\* The key of the publish cache: the content digest of the built result.
PublishKey_ref(d, s) == s
PublishKey(d, s) == d

NewCall ==
    [digest |-> "", ref |-> "", pc |-> "idle", fut |-> 0, invoked |-> FALSE,
     res |-> [kind |-> "none", call |-> 0]]

PublishInit ==
    /\ pubResults = <<>>
    /\ published = <<>>
    /\ pub = [p \in Callers |-> NewCall]

PublishIdle == PublishInit

\* Publish(artifact with digest d, reference string s).  With the caching
\* publisher: under the lock, return the future recorded for the key or
\* create and record one whose work is inner.Publish; without it the inner
\* publisher is invoked by every call.  Calls are numbered in their order.
PublishCall(p, d, s) ==
    /\ pub[p].pc = "idle"
    /\ \A q \in Callers : q < p => pub[q].pc # "idle"
    /\ LET key    == PublishKey(d, s)
           cached == makePublisher[1] = "Caching" /\ key \in DOMAIN pubResults
           n      == Len(published) + 1
       IN  IF cached
           THEN /\ pub' = [pub EXCEPT ![p] = [@ EXCEPT !.digest = d,
                                                !.ref = s,
                                                !.pc = "await",
                                                !.fut = pubResults[key]]]
                /\ UNCHANGED <<pubResults, published>>
           ELSE /\ published' = Append(published,
                                   [digest |-> d, ref |-> s,
                                    state |-> "publishing",
                                    result |-> [kind |-> "none", call |-> 0]])
                /\ pubResults' =
                      IF makePublisher[1] = "Caching"
                      THEN [x \in DOMAIN pubResults \cup {key} |->
                               IF x = key THEN n ELSE pubResults[x]]
                      ELSE pubResults
                /\ pub' = [pub EXCEPT ![p] = [@ EXCEPT !.digest = d,
                                                !.ref = s,
                                                !.pc = "await",
                                                !.fut = n,
                                                !.invoked = TRUE]]
    /\ UNCHANGED <<driverVars, buildVars, goVars>>

\* The inner publisher returns a reference or an error; the reference of
\* every invocation is its own (as the test's makeRef).
InnerPublishEnd(n, k) ==
    /\ n \in DOMAIN published
    /\ published[n].state = "publishing"
    /\ published' = [published EXCEPT ![n] =
                        [@ EXCEPT !.state = "done",
                                  !.result = [kind |-> k, call |-> n]]]
    /\ UNCHANGED <<pubResults, pub>>
    /\ UNCHANGED <<driverVars, buildVars, goVars>>

\* future.Get of the publish future: the call returns the stored result.
PublishGet(p) ==
    /\ pub[p].pc = "await"
    /\ published[pub[p].fut].state = "done"
    /\ pub' = [pub EXCEPT ![p] = [@ EXCEPT !.pc = "done",
                                           !.res = published[pub[p].fut].result]]
    /\ UNCHANGED <<pubResults, published>>
    /\ UNCHANGED <<driverVars, buildVars, goVars>>

PublishNext ==
    \/ \E p \in Callers, d \in Digests, s \in RefStrings : PublishCall(p, d, s)
    \/ \E n \in DOMAIN published, k \in PubOutcomes : InnerPublishEnd(n, k)
    \/ \E p \in Callers : PublishGet(p)

(***************************************************************************)
(* gobuild: the builder returned by build.NewGo.                           *)
(***************************************************************************)
\* A path is the sequence of its segments.  Where kodata lives in the
\* image, and where the binary lives.
kodataRoot == <<"var", "run", "ko">>
appDir == <<"ko-app">>
defaultAppFilename == "ko-app"

\* An environment entry "KEY=VALUE" is what strings.SplitN(e, "=", 2) makes
\* of it: <<key, value>>, or a single part when the entry holds no "=".
\* A value is the sequence of its ":" separated parts, each a path.
IsKeyValue(e) == Len(e) = 2

\* No value: the variable is not defined.
NoValue == <<>>

\* The value "x" of an environment variable: one part, the path x.
EnvVal(x) == << <<x>> >>

\* The index of the first KEY=VALUE entry of env at or after i whose key is
\* key, 0 when there is none.
RECURSIVE FirstKey(_, _, _)
FirstKey(env, key, i) ==
    IF i > Len(env) THEN 0
    ELSE IF IsKeyValue(env[i]) /\ env[i][1] = key THEN i
    ELSE FirstKey(env, key, i + 1)

\* os.Getenv(key): the variable's value in the process environment, the
\* empty string (no part, or one empty part) when it is not set.
Getenv(key) ==
    LET i == FirstKey(osEnv, key, 1)
    IN  IF i = 0 THEN NoValue ELSE osEnv[i][2]

IsSet(key) == Getenv(key) \notin {NoValue, << <<>> >>}

\* updatePath: append appDir to the first PATH entry, or add PATH=appDir.
updatePath_noReturn(env) ==
    LET i == FirstKey(env, "PATH", 1)
    IN  Append(IF i # 0
               THEN [env EXCEPT ![i] = <<"PATH", Append(env[i][2], appDir)>>]
               ELSE env,
               <<"PATH", <<appDir>>>>)
updatePath(env) ==
    LET i == FirstKey(env, "PATH", 1)
    IN  IF i # 0
        THEN [env EXCEPT ![i] = <<"PATH", Append(env[i][2], appDir)>>]
        ELSE Append(env, <<"PATH", <<appDir>>>>)

\* A platform variant is "" (<<>>), "v<n>" (<<"v", n>>, n = -1 when the
\* digits do not parse) or a string without the prefix v (<<"x">>).
NoVariant == <<>>

\* getGoarm: the GOARM value of an arm variant, "" (none) below 5, capped
\* at 7; an error for a variant that is not v<number>.
getGoarm(platform) ==
    LET v == platform.variant
    IN  IF v[1] # "v" THEN [err |-> TRUE, goarm |-> ""]
        ELSE IF v[2] < 0 THEN [err |-> TRUE, goarm |-> ""]
        ELSE IF v[2] >= 5
             THEN [err |-> FALSE,
                   goarm |-> IF v[2] > 7 THEN "7"
                             ELSE IF v[2] = 5 THEN "5"
                             ELSE IF v[2] = 6 THEN "6" ELSE "7"]
        ELSE [err |-> FALSE, goarm |-> ""]

IsArm(platform) == platform.arch \in {"arm", "arm64"}

\* The variables build sets from the platform, in the order it sets them.
defaultEnv(platform) ==
    << <<"CGO_ENABLED", EnvVal("0")>>,
       <<"GOOS", EnvVal(platform.os)>>,
       <<"GOARCH", EnvVal(platform.arch)>> >>
    \o (IF IsArm(platform) /\ platform.variant # NoVariant
           /\ getGoarm(platform).goarm # ""
        THEN << <<"GOARM", EnvVal(getGoarm(platform).goarm)>> >>
        ELSE <<>>)

\* cmd.Env: the defaults followed by os.Environ().
cmdEnv_callerFirst(platform) == osEnv \o defaultEnv(platform)
cmdEnv(platform) == defaultEnv(platform) \o osEnv

\* The value the compiler sees for key: exec keeps, of duplicate keys, the
\* last entry of the list ("last one wins").
RECURSIVE Effective(_, _)
Effective(env, key) ==
    IF env = <<>> THEN NoValue
    ELSE LET e == env[Len(env)]
         IN  IF IsKeyValue(e) /\ e[1] = key THEN e[2]
             ELSE Effective(SubSeq(env, 1, Len(env) - 1), key)

\* ioutil.TempDir("", "ko"): a new, empty directory.  Nothing of such a
\* directory outlives its removal, so all of them go by one name.
TempDir == <<"tmp", "ko-ephemeral">>

\* The directory build writes the binary to: the new temporary directory,
\* or with KO_STABLE_OUTPUT the directory named after the import path and
\* the hash of arguments and environment.
TmpDir(ip, platform) ==
    IF IsSet("KO_STABLE_OUTPUT")
    THEN <<"tmp", "ko", ip, platform>>
    ELSE TempDir

\* filepath.Base: the last segment after trailing separators are dropped.
\* A path of segments none of which is empty has its last segment as base;
\* the empty path gives "." and a path of separators only gives "/".
RECURSIVE Base(_)
Base(p) ==
    IF p = <<>> THEN "."
    ELSE IF p[Len(p)] # "" THEN p[Len(p)]
    ELSE IF Len(p) = 1 THEN "."
    ELSE IF \A i \in 1..Len(p) : p[i] = "" THEN "/"
    ELSE Base(SubSeq(p, 1, Len(p) - 1))

\* appFilename: the base of the import path, or the default name.
appFilename_raw(importpath) ==
    IF importpath = <<>> THEN "" ELSE importpath[Len(importpath)]
appFilename(importpath) ==
    IF Base(importpath) \in {".", "/"} THEN defaultAppFilename
    ELSE Base(importpath)

\* path.Join(appDir, name) and path.Dir of an absolute path.
appPath(importpath) == Append(appDir, appFilename(importpath))
Dir(p) == SubSeq(p, 1, Len(p) - 1)

\* tarAddDirectories: the headers of dir and of its parents, parents first.
RECURSIVE tarAddDirectories(_)
tarAddDirectories(dir) ==
    IF dir = <<>> THEN <<>>
    ELSE Append(tarAddDirectories(Dir(dir)),
                [name |-> dir, type |-> "dir", mode |-> "0555", content |-> 0])

\* tarBinary: the parent directories of name, then the binary as the
\* regular file name.
tarBinary(name, binary) ==
    Append(tarAddDirectories(Dir(name)),
           [name |-> name, type |-> "reg", mode |-> "0555",
            content |-> binary])

(***************************************************************************)
(* The layer-metadata cache: the files buildid-to-diffid and               *)
(* diffid-to-descriptor next to the binary, and their mirrors in g.        *)
(***************************************************************************)
\* The content of a file that does not exist, and a directory without files.
\* A file's content is a sequence of tokens; a binary's content is the
\* source version it was compiled from.
NoFile == << <<"ENOENT">> >>
NoDir == [out |-> 0, btod |-> NoFile, dtod |-> NoFile]

\* The state the cache works on: the directories and g's two maps.
GoState == [disk |-> disk, btd |-> buildToDiff, dtd |-> diffToDesc]

DirOf(d, dir) == IF dir \in DOMAIN d THEN d[dir] ELSE NoDir

PutDir(d, dir, rec) == (dir :> rec) @@ d

\* os.RemoveAll(dir)
RemoveAll(d, dir) == [x \in DOMAIN d \ {dir} |-> d[x]]

\* build: the toolchain adapter, on the directories d.  It fails for a
\* strange arm variant before it makes a directory.  It makes a temporary
\* directory, and with KO_STABLE_OUTPUT the stable one as well; when the
\* compiler fails it removes the directory it compiled into unless that is
\* the stable one, otherwise the binary of source version ver is at
\* <tmpDir>/out.
build(ip, platform, ver, fault, d) ==
    LET tmpDir == TmpDir(ip, platform)
        Run(made) ==
            IF fault = "compile"
            THEN [err |-> TRUE, env |-> cmdEnv(platform), file |-> tmpDir,
                  binary |-> 0,
                  disk |-> IF IsSet("KO_STABLE_OUTPUT") THEN made
                           ELSE RemoveAll(made, tmpDir)]
            ELSE [err |-> FALSE, env |-> cmdEnv(platform), file |-> tmpDir,
                  binary |-> ver,
                  disk |-> PutDir(made, tmpDir,
                                  [DirOf(made, tmpDir) EXCEPT !.out = ver])]
        Made(temp) ==
            Run(IF IsSet("KO_STABLE_OUTPUT")
                THEN PutDir(temp, tmpDir, DirOf(temp, tmpDir))
                ELSE temp)
    IN  IF IsArm(platform) /\ platform.variant # NoVariant
           /\ getGoarm(platform).err
        THEN [err |-> TRUE, env |-> <<>>, file |-> <<>>, binary |-> 0,
              disk |-> d]
        ELSE Made(PutDir(d, TempDir, NoDir))

\* m[k] = v on a Go map.
PutKey(m, k, v) == (k :> v) @@ m

\* The entries of a map as tokens, one per key, in the encoder's order.
RECURSIVE Entries(_, _)
Entries(m, keys) ==
    IF keys = {} THEN <<>>
    ELSE LET k == CHOOSE x \in keys : TRUE
         IN  <<<<"kv", k, m[k]>>>> \o Entries(m, keys \ {k})

\* json.Encoder.Encode of a map: one JSON object.
Encode(m) == << <<"{">> >> \o Entries(m, DOMAIN m) \o << <<"}">> >>

\* Writing through a file opened with O_RDWR|O_CREATE: the bytes written
\* replace the head of the content, what lay beyond them stays.
Overwrite_append(old, new) ==
    IF old = NoFile THEN new ELSE old \o new
Overwrite(old, new) ==
    IF old = NoFile \/ Len(old) <= Len(new) THEN new
    ELSE new \o SubSeq(old, Len(new) + 1, Len(old))

\* The position of the token that closes the object opened at position 1,
\* 0 when the content does not start with a complete object.
RECURSIVE ObjectEnd(_, _)
ObjectEnd(c, i) ==
    IF i > Len(c) THEN 0
    ELSE IF c[i][1] = "}" THEN i
    ELSE IF c[i][1] = "kv" THEN ObjectEnd(c, i + 1)
    ELSE 0

\* The map of the entries at positions i..j of the content.
RECURSIVE MapOf(_, _, _)
MapOf(c, i, j) ==
    IF i > j THEN <<>> ELSE PutKey(MapOf(c, i + 1, j), c[i][2], c[i][3])

\* os.Open and json.Decoder.Decode: the first JSON value of the content is
\* decoded, what follows it is not looked at.  An error when the file does
\* not exist or does not start with an object.
Decode(c) ==
    IF c = NoFile \/ c = <<>> \/ c[1][1] # "{" \/ ObjectEnd(c, 2) = 0
    THEN [err |-> TRUE, map |-> <<>>]
    ELSE [err |-> FALSE, map |-> MapOf(c, 2, ObjectEnd(c, 2) - 1)]

\* getBuildId: the build-id `go tool buildid` reports for a binary.
getBuildId(binary) == <<"buildid", binary>>

\* Diff-id and descriptor of a layer made of the tar stream t: the hashes
\* of the stream, which its last entry tells apart from every other
\* stream that is made here.
DiffID(t) == <<"diffid", t[Len(t)]>>
Descriptor(t) == <<"descriptor", t[Len(t)]>>

NoThunk == [name |-> <<>>, binary |-> <<>>]

\* tarball.LayerFromOpener over the bytes of a tar stream.
LayerFromOpener(t) ==
    [lazy |-> FALSE, diffid |-> DiffID(t), desc |-> Descriptor(t),
     tar |-> t, thunk |-> NoThunk]

\* readBuildToDiff: the mirror's map of the file, else the decoded file,
\* which is then kept in the mirror.
readBuildToDiff(st, file, fault) ==
    LET Read(d) ==
            IF fault = "lookup.btod" \/ d.err
            THEN [err |-> TRUE, map |-> <<>>, st |-> st]
            ELSE [err |-> FALSE, map |-> d.map,
                  st |-> [st EXCEPT !.btd = PutKey(st.btd, file, d.map)]]
    IN  IF file \in DOMAIN st.btd
        THEN [err |-> FALSE, map |-> st.btd[file], st |-> st]
        ELSE Read(Decode(DirOf(st.disk, file).btod))

\* readDiffToDesc: likewise for diffid-to-descriptor.
readDiffToDesc(st, file, fault) ==
    LET Read(d) ==
            IF fault = "lookup.dtod" \/ d.err
            THEN [err |-> TRUE, map |-> <<>>, st |-> st]
            ELSE [err |-> FALSE, map |-> d.map,
                  st |-> [st EXCEPT !.dtd = PutKey(st.dtd, file, d.map)]]
    IN  IF file \in DOMAIN st.dtd
        THEN [err |-> FALSE, map |-> st.dtd[file], st |-> st]
        ELSE Read(Decode(DirOf(st.disk, file).dtod))

\* buildLazyLayer: a lazy layer from the recorded diff-id and descriptor of
\* the binary's build-id; an error when any step of the lookup fails.
buildLazyLayer(st, name, file, fault) ==
    LET miss(s) == [err |-> TRUE, layer |-> LayerFromOpener(tarAddDirectories(appDir)),
                       st |-> s]
        Lookup(buildid, b, d) ==
            IF fault = "lookup.buildid" THEN miss(st)
            ELSE IF b.err THEN miss(b.st)
            ELSE IF d.err THEN miss(d.st)
            ELSE IF buildid \notin DOMAIN b.map THEN miss(d.st)
            ELSE IF b.map[buildid] \notin DOMAIN d.map THEN miss(d.st)
            ELSE [err |-> FALSE,
                  layer |-> [lazy |-> TRUE,
                             diffid |-> b.map[buildid],
                             desc |-> d.map[b.map[buildid]],
                             tar |-> <<>>,
                             thunk |-> [name |-> name, binary |-> file]],
                  st |-> d.st]
        ReadBoth(b) ==
            Lookup(getBuildId(DirOf(st.disk, file).out), b,
                   IF b.err THEN b ELSE readDiffToDesc(b.st, file, fault))
    IN  ReadBoth(readBuildToDiff(st, file, fault))

\* cacheLayerMeta: record build-id -> diff-id and diff-id -> descriptor of
\* the layer in the maps of the file (those of g when g has them, new ones
\* otherwise, which g does not keep) and write both maps to their files.
cacheLayerMeta(st, file, layer, fault) ==
    LET created(c) == IF c = NoFile THEN <<>> ELSE c
        Write(btod, dtod, st1, dir) ==
            IF fault = "write.open" THEN [err |-> TRUE, st |-> st1]
            ELSE IF fault = "write.encode"
            THEN [err |-> TRUE,
                  st |-> [st1 EXCEPT !.disk = PutDir(@, file,
                             [dir EXCEPT !.btod = Overwrite(@, Encode(btod)),
                                         !.dtod = created(@)])]]
            ELSE [err |-> FALSE,
                  st |-> [st1 EXCEPT !.disk = PutDir(@, file,
                             [dir EXCEPT !.btod = Overwrite(@, Encode(btod)),
                                         !.dtod = Overwrite(@, Encode(dtod))])]]
        Record(btod, dtod) ==
            Write(btod, dtod,
                  [st EXCEPT
                     !.btd = IF file \in DOMAIN @ THEN PutKey(@, file, btod)
                             ELSE @,
                     !.dtd = IF file \in DOMAIN @ THEN PutKey(@, file, dtod)
                             ELSE @],
                  DirOf(st.disk, file))
    IN  Record(PutKey(IF file \in DOMAIN st.btd THEN st.btd[file] ELSE <<>>,
                      getBuildId(DirOf(st.disk, file).out), layer.diffid),
               PutKey(IF file \in DOMAIN st.dtd THEN st.dtd[file] ELSE <<>>,
                      layer.diffid, layer.desc))

(***************************************************************************)
(* The kodata tree and its tar stream.  A tree gives each directory its    *)
(* entries in the order filepath.Walk visits them; an entry is a regular   *)
(* file, a real sub-directory (to: its directory) or a symlink (to: the    *)
(* directory it resolves to, or "file").                                   *)
(***************************************************************************)
EntryName(i) == <<"e1", "e2", "e3", "e4">>[i]

\* filepath.Walk below the root of a walk: the entries of dir from the i-th
\* on, with the callback of walkRecursive.  A real directory gets no
\* header and is walked; a regular file, and a symlink to one, gets a
\* header under the path in the image; a symlink to a directory starts a
\* walk of that directory.  returns is FALSE when the walk does not end.
RECURSIVE Walk(_, _, _, _, _), walkRecursive(_, _, _, _)
Walk(tree, dir, path, active, i) ==
    LET Then(r, next) ==
            IF ~r.returns THEN r
            ELSE [returns |-> next.returns, tar |-> r.tar \o next.tar]
        Visit(e, newPath) ==
            IF e.kind = "dir" THEN Walk(tree, e.to, newPath, active, 1)
            ELSE IF e.kind = "link" /\ e.to # "file"
            THEN walkRecursive(tree, e.to, newPath, active)
            ELSE [returns |-> TRUE,
                  tar |-> <<[name |-> newPath, type |-> "reg",
                             mode |-> "0555", content |-> 0]>>]
    IN  IF i > Len(tree[dir]) THEN [returns |-> TRUE, tar |-> <<>>]
        ELSE Then(Visit(tree[dir][i], Append(path, EntryName(i))),
                  Walk(tree, dir, path, active, i + 1))

\* walkRecursive: a header for the root of the walk, then the walk.  The
\* walk of a directory is the same whatever it is mapped to, so a walk of
\* root that comes to walk root again goes on without end; active holds the
\* roots of the walks that are under way.
walkRecursive(tree, root, chroot, active) ==
    LET Rooted(r) ==
            [returns |-> r.returns,
             tar |-> <<[name |-> chroot, type |-> "dir", mode |-> "0555",
                        content |-> 0]>> \o r.tar]
    IN  IF root \in active THEN [returns |-> FALSE, tar |-> <<>>]
        ELSE Rooted(Walk(tree, root, chroot, active \cup {root}, 1))

\* tarKoData: the walk of the kodata directory, mapped to kodataRoot.
tarKoData(tree) == walkRecursive(tree, "kodata", kodataRoot, {})

\* The layer of the kodata directory, mapped into kodataRoot: tarKoData
\* over a kodata directory without files.
dataLayer == LayerFromOpener(tarKoData(("kodata" :> <<>>)).tar)

\* The addenda of buildOne in the order they are appended.
AddedLayers_binaryFirst(data, binary) == <<binary, data>>
AddedLayers(data, binary) == <<data, binary>>

\* The deferred os.RemoveAll(filepath.Dir(file)) of buildOne: unless
\* KO_STABLE_OUTPUT is set, the directory of the binary is removed when
\* buildOne returns.
deferRemoveAll_never(st, file) == st
deferRemoveAll_binary(st, file) ==
    [st EXCEPT !.disk = PutDir(@, file, [DirOf(@, file) EXCEPT !.out = 0])]
deferRemoveAll(st, file) ==
    IF IsSet("KO_STABLE_OUTPUT") THEN st
    ELSE [st EXCEPT !.disk = RemoveAll(@, file)]

\* What buildOne does with an error of the lookup and of cacheLayerMeta:
\* the lookup's error makes it build the layer, the write's is logged.
LookupHit(cache, lz) == cache /\ ~lz.err
MetaError_returned(w) == w.err
MetaError(w) == FALSE

\* cfg.Config.Env after updatePath and the append of KO_DATA_PATH.
ConfigEnv(env) == Append(updatePath(env), <<"KO_DATA_PATH", <<kodataRoot>>>>)

\* No platform given: buildOne takes it from the base's config.
NoPlatform == [os |-> "", arch |-> "", variant |-> NoVariant]

\* buildOne: compile, make the data layer and the binary layer (lazy when
\* the metadata cache knows the binary), append them to the base, set
\* entrypoint, environment and author; the ephemeral directory is removed
\* when buildOne returns.
buildOne(s, base, platform, ver, fault, st) ==
    LET name  == appPath(s)
        cache == IsSet("KO_CACHE_META")
        call(p, b, h, l, wrote) ==
            [file |-> b.file, platform |-> p, env |-> b.env, hit |-> h,
             cold |-> b.file \notin DOMAIN st.btd, logged |-> l,
             wrote |-> wrote]
        failed(p, b, x, l) ==
            [err |-> TRUE, image |-> [kind |-> "none"], st |-> x,
             call |-> call(p, b, FALSE, l, <<>>)]
        Configured(p, b, hit, lz, st2, real, w) ==
            IF cache /\ ~hit /\ MetaError(w)
            THEN failed(p, b, deferRemoveAll(w.st, b.file), TRUE)
            ELSE [err |-> FALSE,
                  image |->
                      [kind |-> "image",
                       mediaType |-> base.mediaType,
                       layers |-> base.layers \o
                           AddedLayers(dataLayer,
                                       IF hit THEN lz.layer ELSE real),
                       config |-> [base.config EXCEPT
                                      !.entrypoint = <<name>>,
                                      !.env = ConfigEnv(@),
                                      !.author = "github.com/google/ko"]],
                  st |-> deferRemoveAll(IF cache /\ ~hit THEN w.st ELSE st2,
                                 b.file),
                  call |-> call(p, b, hit, cache /\ ~hit /\ w.err,
                                IF cache /\ ~hit /\ ~w.err
                                   /\ IsSet("KO_STABLE_OUTPUT")
                                THEN <<[buildid |-> getBuildId(ver),
                                        diffid |-> real.diffid,
                                        desc |-> real.desc]>>
                                ELSE <<>>)]
        Tarred(p, b, hit, lz, st2, real) ==
            Configured(p, b, hit, lz, st2, real,
                       cacheLayerMeta(st2, b.file, real, fault))
        LookedUp(p, b, hit, lz, st2) ==
            IF ~hit /\ fault = "tar"
            THEN failed(p, b, deferRemoveAll(st2, b.file), FALSE)
            ELSE Tarred(p, b, hit, lz, st2,
                        LayerFromOpener(
                            tarBinary(name, DirOf(st2.disk, b.file).out)))
        WithLazy(p, b, st1, lz) ==
            LookedUp(p, b, LookupHit(cache, lz), lz,
                     IF cache THEN lz.st ELSE st1)
        Built(p, b, st1) ==
            IF b.err THEN failed(p, b, st1, FALSE)
            ELSE WithLazy(p, b, st1,
                          buildLazyLayer(st1, name, b.file, fault))
        Started(p, b) == Built(p, b, [st EXCEPT !.disk = b.disk])
        For(p) == Started(p, build(s, p, ver, fault, st.disk))
    IN  For(IF platform = NoPlatform
            THEN [os |-> base.config.os, arch |-> base.config.arch,
                  variant |-> NoVariant]
            ELSE platform)

\* The media types of a single-image manifest and of an index.
ImageTypes == {"oci.image.manifest.v1", "docker.manifest.v2"}
IndexTypes == {"oci.image.index.v1", "docker.manifest.list.v2"}

\* The digest of a built image.
ImageDigest(img) == <<"sha256", img>>

\* The IndexAddendum buildAll makes of a built image and the descriptor of
\* the base it was built for, as AppendManifests puts it into the index.
IndexAddendum_baseDigest(img, desc) == desc
IndexAddendum(img, desc) ==
    [digest |-> ImageDigest(img), urls |-> desc.urls,
     mediaType |-> desc.mediaType, annotations |-> desc.annotations,
     platform |-> desc.platform]

\* A child that buildAll accepts: a single-image manifest.
IsImageManifest_any(desc) == TRUE
IsImageManifest(desc) == desc.mediaType \in ImageTypes

\* buildAll from child i on: every child must be a single-image manifest;
\* its image is built for the child's platform and added to the new index.
RECURSIVE buildAllFrom(_, _, _, _, _, _)
buildAllFrom(s, base, i, ver, fault, acc) ==
    LET Added(desc, r) ==
            IF ~IsImageManifest(desc)
            THEN [err |-> TRUE, res |-> [kind |-> "none"],
                  st |-> acc.st, calls |-> acc.calls]
            ELSE IF r.err
            THEN [err |-> TRUE, res |-> [kind |-> "none"],
                  st |-> r.st, calls |-> Append(acc.calls, r.call)]
            ELSE buildAllFrom(s, base, i + 1, ver, fault,
                     [adds |-> Append(acc.adds,
                                      IndexAddendum(r.image, desc)),
                      st |-> r.st,
                      calls |-> Append(acc.calls, r.call)])
        ForChild(desc) ==
            Added(desc, buildOne(s, base.images[desc.digest],
                                 desc.platform, ver, fault, acc.st))
    IN  IF i > Len(base.manifests)
        THEN [err |-> FALSE,
              res |-> [kind |-> "index", mediaType |-> base.mediaType,
                       manifests |-> acc.adds],
              st |-> acc.st, calls |-> acc.calls]
        ELSE ForChild(base.manifests[i])

buildAll(s, base, ver, fault, st) ==
    buildAllFrom(s, base, 1, ver, fault,
                 [adds |-> <<>>, st |-> st, calls |-> <<>>])

\* gobuild.Build: buildAll for an index base, buildOne for an image base,
\* an error for a base of another media type.
Build(s, base, ver, fault, st) ==
    LET One(r) == [err |-> r.err, res |-> r.image, st |-> r.st,
                   calls |-> <<r.call>>]
    IN  IF base.mediaType \in IndexTypes
        THEN buildAll(s, base, ver, fault, st)
        ELSE IF base.mediaType \in ImageTypes
        THEN One(buildOne(s, base, NoPlatform, ver, fault, st))
        ELSE [err |-> TRUE, res |-> [kind |-> "none"], st |-> st,
              calls |-> <<>>]

\* The metadata written with success by the calls, per file.
RECURSIVE Written(_, _)
Written(w, calls) ==
    IF calls = <<>> THEN w
    ELSE Written(IF Head(calls).wrote = <<>> THEN w
                 ELSE PutKey(w, Head(calls).file, Head(calls).wrote[1]),
                 Tail(calls))

\* What can go wrong in a call: nothing, the compiler, and the steps of
\* the metadata lookup and of the metadata write.
Faults == {"none", "compile", "lookup.buildid", "lookup.btod",
           "lookup.dtod", "write.open", "write.encode"}

\* A call of Build on g, for the sources at version ver.  Versions are
\* interchangeable: a version not compiled before is the next number.
GoBuild(ver, fault) ==
    /\ goIn.kind = "build"
    /\ ver <= srcVer + 1
    /\ srcVer' = IF ver > srcVer THEN ver ELSE srcVer
    /\ \E r \in {Build(goIn.s, goIn.base, ver, fault, GoState)} :
           /\ disk' = r.st.disk
           /\ buildToDiff' = r.st.btd
           /\ diffToDesc' = r.st.dtd
           /\ goOut' = [kind |-> IF r.err THEN "error" ELSE r.res.kind,
                        res |-> r.res, ver |-> ver, fault |-> fault,
                        calls |-> r.calls]
           /\ written' = Written(written, r.calls)
    /\ UNCHANGED <<osEnv, goIn>>
    /\ UNCHANGED <<driverVars, buildVars, pubVars>>

\* NewGo in a new process: the maps of g are empty, the files stay.
NewGo ==
    /\ goIn.kind = "build"
    /\ buildToDiff # <<>> \/ diffToDesc # <<>>
    /\ buildToDiff' = <<>>
    /\ diffToDesc' = <<>>
    /\ UNCHANGED <<osEnv, goIn, disk, goOut, written, srcVer>>
    /\ UNCHANGED <<driverVars, buildVars, pubVars>>

\* A call of tarKoData on the tree of goIn.
GoTarKoData ==
    /\ goIn.kind = "kodata"
    /\ goOut.kind = "none"
    /\ \E r \in {tarKoData(goIn.tree)} :
          goOut' = [kind |-> IF r.returns THEN "tar" ELSE "walking",
                    tar |-> r.tar]
    /\ UNCHANGED <<osEnv, goIn, disk, buildToDiff, diffToDesc, written, srcVer>>
    /\ UNCHANGED <<driverVars, buildVars, pubVars>>

(***************************************************************************)
(* Two builds of different references at once on one gobuild, behind the   *)
(* limiter.  A build is a sequence of steps; the steps that read or write  *)
(* the maps g.buildToDiff and g.diffToDesc take time: a build enters the   *)
(* map access and leaves it.  The code takes no lock around them.          *)
(***************************************************************************)
\* The reference of the t-th build, and the file its binary is compiled to.
MirrorRef(t) == <<"example.com", <<"a", "b">>[t]>>
MirrorFile(t) == TmpDir(MirrorRef(t), NoPlatform)

\* The steps of a build that touch no map of g: the limiter's token is
\* taken, the binary compiled, a metadata file opened and decoded, the
\* build-id looked up in the decoded maps, the binary tarred, the metadata
\* written by cacheLayerMeta, the token given back.
GoBuildStep(t) ==
    LET file == MirrorFile(t)
        at == goOut.pc[t]
        mine(m, c) == IF file \in DOMAIN m THEN m[file] ELSE Decode(c).map
        Hit(buildid, b, d) == buildid \in DOMAIN b /\ b[buildid] \in DOMAIN d
        to(next) == goOut' = [goOut EXCEPT !.pc[t] = next]
    IN  /\ goOut.kind = "builds"
        /\ ~goOut.thrown
        /\ ~goOut.in[t]
        /\ \/ /\ at = "wait"
              /\ semaphore < limit
              /\ semaphore' = semaphore + 1
              /\ to("build")
              /\ UNCHANGED <<disk, buildToDiff, diffToDesc>>
           \/ /\ at = "build"
              /\ disk' = PutDir(disk, file, [DirOf(disk, file) EXCEPT !.out = 1])
              /\ to("btod.get")
              /\ UNCHANGED <<semaphore, buildToDiff, diffToDesc>>
           \/ /\ at = "btod.open"
              /\ to(IF Decode(DirOf(disk, file).btod).err THEN "tar"
                    ELSE "btod.put")
              /\ UNCHANGED <<semaphore, disk, buildToDiff, diffToDesc>>
           \/ /\ at = "dtod.open"
              /\ to(IF Decode(DirOf(disk, file).dtod).err THEN "tar"
                    ELSE "dtod.put")
              /\ UNCHANGED <<semaphore, disk, buildToDiff, diffToDesc>>
           \/ /\ at = "lookup"
              /\ to(IF Hit(getBuildId(DirOf(disk, file).out),
                           mine(buildToDiff, DirOf(disk, file).btod),
                           mine(diffToDesc, DirOf(disk, file).dtod))
                    THEN "release" ELSE "tar")
              /\ UNCHANGED <<semaphore, disk, buildToDiff, diffToDesc>>
           \/ /\ at = "tar"
              /\ to("meta.btod")
              /\ UNCHANGED <<semaphore, disk, buildToDiff, diffToDesc>>
           \/ /\ at = "meta.write"
              /\ \E r \in {cacheLayerMeta(GoState, file,
                              LayerFromOpener(tarBinary(appPath(MirrorRef(t)),
                                                  DirOf(disk, file).out)),
                              "none")} :
                    /\ disk' = r.st.disk
                    /\ buildToDiff' = r.st.btd
                    /\ diffToDesc' = r.st.dtd
              /\ to("release")
              /\ UNCHANGED semaphore
           \/ /\ at = "release"
              /\ semaphore' = semaphore - 1
              /\ to("done")
              /\ UNCHANGED <<disk, buildToDiff, diffToDesc>>
        /\ UNCHANGED <<osEnv, goIn, written, srcVer, limit, results, future,
                       th, started, toolchain, invalidated>>
        /\ UNCHANGED <<driverVars, pubVars>>

\* A build enters the access its step makes to a map of g: the reads of
\* readBuildToDiff, readDiffToDesc and cacheLayerMeta, and the inserts of
\* the two readers.
GoMapBegin(t) ==
    /\ goOut.kind = "builds"
    /\ ~goOut.thrown
    /\ ~goOut.in[t]
    /\ goOut.pc[t] \in {"btod.get", "btod.put", "dtod.get", "dtod.put",
                        "meta.btod", "meta.dtod"}
    /\ goOut' = [goOut EXCEPT !.in[t] = TRUE]
    /\ UNCHANGED <<osEnv, goIn, disk, buildToDiff, diffToDesc, written, srcVer>>
    /\ UNCHANGED <<driverVars, buildVars, pubVars>>

\* A build leaves the access.  A read tells whether the map has the file;
\* an insert puts the decoded map under the file.  An insert that ends
\* while the other build is inside an access of its own is a data race:
\* the entry may be there afterwards or not.
GoMapEnd(t) ==
    LET file == MirrorFile(t)
        at == goOut.pc[t]
        raced == \E u \in DOMAIN goOut.in : u # t /\ goOut.in[u]
        to(next) == goOut' = [goOut EXCEPT !.in[t] = FALSE, !.pc[t] = next]
    IN  /\ goOut.kind = "builds"
        /\ ~goOut.thrown
        /\ goOut.in[t]
        /\ \/ /\ at = "btod.get"
              /\ to(IF file \in DOMAIN buildToDiff THEN "dtod.get"
                    ELSE "btod.open")
              /\ UNCHANGED <<buildToDiff, diffToDesc>>
           \/ /\ at = "dtod.get"
              /\ to(IF file \in DOMAIN diffToDesc THEN "lookup"
                    ELSE "dtod.open")
              /\ UNCHANGED <<buildToDiff, diffToDesc>>
           \/ /\ at = "btod.put"
              /\ \/ buildToDiff' = PutKey(buildToDiff, file,
                                      Decode(DirOf(disk, file).btod).map)
                 \/ raced /\ buildToDiff' = buildToDiff
              /\ to("dtod.get")
              /\ UNCHANGED diffToDesc
           \/ /\ at = "dtod.put"
              /\ \/ diffToDesc' = PutKey(diffToDesc, file,
                                     Decode(DirOf(disk, file).dtod).map)
                 \/ raced /\ diffToDesc' = diffToDesc
              /\ to("lookup")
              /\ UNCHANGED buildToDiff
           \/ /\ at = "meta.btod"
              /\ to("meta.dtod")
              /\ UNCHANGED <<buildToDiff, diffToDesc>>
           \/ /\ at = "meta.dtod"
              /\ to("meta.write")
              /\ UNCHANGED <<buildToDiff, diffToDesc>>
        /\ UNCHANGED <<osEnv, goIn, disk, written, srcVer>>
        /\ UNCHANGED <<driverVars, buildVars, pubVars>>

\* The runtime finds a map written while another goroutine is inside an
\* access to it ("concurrent map read and map write", "concurrent map
\* writes") and ends the process.
GoMapThrow(t) ==
    /\ goOut.kind = "builds"
    /\ ~goOut.thrown
    /\ goOut.in[t]
    /\ \E u \in DOMAIN goOut.in :
          /\ u # t
          /\ goOut.in[u]
          /\ goOut.pc[u] \in {"btod.put", "dtod.put"}
    /\ goOut' = [goOut EXCEPT !.thrown = TRUE]
    /\ UNCHANGED <<osEnv, goIn, disk, buildToDiff, diffToDesc, written, srcVer>>
    /\ UNCHANGED <<driverVars, buildVars, pubVars>>

\* The gobuild object when no call is made on it.
GoIdle ==
    /\ osEnv = <<>>
    /\ goIn = [kind |-> "none"]
    /\ disk = <<>>
    /\ buildToDiff = <<>>
    /\ diffToDesc = <<>>
    /\ goOut = [kind |-> "none"]
    /\ written = <<>>
    /\ srcVer = 0

\* The driver when no file is streamed.
DriverIdle ==
    /\ input = <<>>
    /\ fs = "open"
    /\ received = <<>>
    /\ futures = <<>>
    /\ ch = <<>>
    /\ sm = <<>>
    /\ out = <<>>
    /\ emitted = <<>>
    /\ outClosed = FALSE
    /\ pc = "loop"
    /\ exited = FALSE

\* The builder when nothing is requested from it.
BuildIdle ==
    /\ limit = 1
    /\ results = <<>>
    /\ future = <<>>
    /\ semaphore = 0
    /\ th = [t \in Threads |-> NewThread]
    /\ started = [r \in Refs |-> 0]
    /\ toolchain = [r \in Refs |-> 0]
    /\ invalidated = [r \in Refs |-> 0]

\* The builder under requests, nothing else running.
InitBuild == BuildInit /\ DriverIdle /\ PublishIdle /\ GoIdle

SpecBuild == InitBuild /\ [][BuildNext]_vars

\* The builder in runs without invalidation, with the toolchain adapter
\* invocations each gobuild.Build makes.
BuildOnceNext ==
    \/ \E q \in Requesters, r \in Refs : Request(q, r)
    \/ \E t \in Threads : CachingBuild(t)
    \/ \E t \in Threads : FutureGet(t)
    \/ \E t \in Threads : LimiterAcquire(t)
    \/ \E t \in Threads : LimiterRelease(t)
    \/ \E t \in Threads : GoBuildStart(t)
    \/ \E t \in Threads : GoBuildOne(t)
    \/ \E t \in Threads, k \in Outcomes : GoBuildEnd(t, k)
    \/ \E t \in Threads : FutureComplete(t)

SpecBuildOnce == InitBuild /\ [][BuildOnceNext]_vars

\* A step of the program, as opposed to its callers (Request, Invalidate).
ProgramStep ==
    \E t \in Threads :
        \/ CachingBuild(t)
        \/ FutureGet(t)
        \/ LimiterAcquire(t)
        \/ LimiterRelease(t)
        \/ GoBuildStart(t)
        \/ \E k \in Outcomes : GoBuildEnd(t, k)
        \/ FutureComplete(t)

\* Scheduling of the builder: while some goroutine can take a step, one
\* does; in particular a wrapped build that was started returns.
FairBuild == SpecBuild /\ WF_vars(ProgramStep)

\* The publisher under Publish calls, nothing else running.
InitPublish == PublishInit /\ DriverIdle /\ BuildIdle /\ GoIdle

SpecPublish == InitPublish /\ [][PublishNext]_vars

\* The driver alone: builder and publisher are behind resolveFile.
InitDriver == DriverInit /\ BuildIdle /\ PublishIdle /\ GoIdle

SpecDriver == InitDriver /\ [][DriverNext]_vars

\* Scheduling of the driver: the loop and the goroutines it started keep
\* running while one of them can take a step.
FairDriver == SpecDriver /\ WF_vars(DriverNext)

(***************************************************************************)
(* Properties of resolveFilesToWriter.                                     *)
(***************************************************************************)
\* The documents among the elements written to out, in order.
Docs(o) == SelectSeq(o, LAMBDA e : e[1] = "doc")

NoFailure == \A id \in DOMAIN ch : ch[id] # "fatal"

\* C1: documents are written in exactly the order their file names were
\* received from fs, whatever the completion order of the goroutines: the
\* k-th document written is the document of the k-th name received.
C1_InputOrder ==
    /\ \A k \in 1..Len(emitted) : emitted[k] = k
    /\ Docs(out) = [k \in 1..Len(emitted) |-> resolveFile(received[k])]

\* A later document is ready to be sent while an earlier one is still being
\* resolved, and the driver has already written the first document.
C1_Witness ==
    /\ Len(received) = 3
    /\ emitted = <<1>>
    /\ ch[2] = "resolve"
    /\ ch[3] = "send"

\* C2: when every resolution succeeds no document is written twice, and once
\* the driver has finished every received name has been written exactly once,
\* so the output holds as many documents as names were received.
C2_ExactlyOnce ==
    /\ \A i, j \in 1..Len(emitted) : emitted[i] = emitted[j] => i = j
    /\ (pc = "done" /\ NoFailure) =>
          /\ input = <<>>
          /\ Range(emitted) = 1..Len(received)
          /\ Len(Docs(out)) = Len(received)

C2_Witness ==
    /\ pc = "done"
    /\ NoFailure
    /\ Len(received) >= 2
    /\ Len(Docs(out)) = Len(received)

\* C3: every document written is immediately followed by exactly one
\* delimiter; out never starts with a delimiter and holds no delimiter that
\* does not close a document.
C3_TrailingDelimiter ==
    /\ Len(out) = 2 * Len(emitted)
    /\ \A k \in 1..Len(emitted) :
          /\ out[2 * k - 1] = resolveFile(received[emitted[k]])
          /\ out[2 * k] = Delim

C3_Witness ==
    /\ Len(out) >= 4
    /\ out[1] # Delim
    /\ out[Len(out)] = Delim

\* The resolutions that failed.
Failed == {id \in DOMAIN ch : ch[id] \notin
              {"resolve", "store", "send", "return"} /\ id \notin Range(emitted)}

\* C17 (state part): the driver never completes normally after a resolution
\* failed, and whenever it completes normally every document it received
\* is in the output; the output is not closed behind a failed document.
C17_NotSkipped ==
    /\ Failed # {} => (pc # "done" /\ ~outClosed)
    /\ \A id \in Failed : id \in Range(futures)
    /\ pc = "done" => Range(emitted) = 1..Len(received)

AllResolved == \A id \in DOMAIN ch : ch[id] \in {"send", "return", "closed"}

\* C19 (state part): the loop is left only with fs nil and no slot queued.
C19_ExitOnlyDrained ==
    pc = "done" => (fs = "nil" /\ Len(futures) = 0 /\ outClosed)

\* C19 (step part): with no slot queued and fs not nil the driver only
\* waits on fs: it neither writes nor leaves the loop.
C19_WaitsOnInput ==
    (Len(futures) = 0 /\ fs # "nil") =>
        (pc' = pc /\ out' = out /\ outClosed' = outClosed)

\* C19: the loop leaves only when fs is closed and the queue is empty, it
\* waits on fs alone while the queue is empty and fs is open, and once fs
\* is closed and every started resolution has finished with its document
\* the driver eventually leaves the loop and closes the output.
C19_LoopExit ==
    /\ [](C19_ExitOnlyDrained)
    /\ [][C19_WaitsOnInput]_vars
    /\ ((fs # "open" /\ AllResolved) ~> (pc = "done" /\ outClosed))

\* The input was closed while resolutions were still queued; the driver
\* drained them all and then left the loop.
C19_Witness ==
    /\ pc = "done"
    /\ outClosed
    /\ fs = "nil"
    /\ Len(futures) = 0
    /\ Len(emitted) = 3
    /\ \A id \in DOMAIN ch : ch[id] = "closed"

(***************************************************************************)
(* Properties of the builder stack.                                        *)
(***************************************************************************)
\* The threads inside gobuild.Build for reference r.
Building(r) == {t \in Threads : th[t].pc = "building" /\ th[t].ref = r}

\* The thread is inside Limiter.Build between acquire and release.
Holding(t) ==
    /\ th[t].pc \notin {"idle", "done"}
    /\ \E d \in 1..Len(makeBuilder) :
          /\ makeBuilder[d] = "Limiter"
          /\ \/ th[t].depth > d
             \/ th[t].depth = d /\ th[t].pc = "ret" /\ th[t].base # d

\* The thread waits for a token of the limiter.
WaitingToken(t) == th[t].pc = "enter" /\ Layer(t) = "Limiter"

\* C4 as stated: a reference requested several times concurrently, without
\* invalidation, invokes the wrapped builder at most once and the toolchain
\* adapter at most once.
C4_Original ==
    \A r \in Refs : started[r] <= 1 /\ toolchain[r] <= 1

\* C4 amended: without invalidation the wrapped builder is invoked at most
\* once for a reference however many requesters ask for it; the toolchain
\* adapter is invoked at most once per manifest of the reference's base.
C4_BuiltOnce ==
    \A r \in Refs : started[r] <= 1 /\ toolchain[r] <= MaxManifests

\* Two requesters of one reference were served by one build that invoked the
\* adapter for two platforms.
C4_Witness ==
    /\ th[1].pc = "done" /\ th[2].pc = "done"
    /\ th[1].ref = th[2].ref
    /\ th[2].hit
    /\ started[th[1].ref] = 1
    /\ toolchain[th[1].ref] = 2

\* C5: at every moment at most one wrapped-builder invocation is active for
\* a given reference, also when invalidate is called during a build.
C5_OneActivePerRef ==
    \A r \in Refs : Cardinality(Building(r)) <= 1

\* C6: all requesters that awaited the same future observe the same outcome,
\* value or error, and it is the one the future's own build produced.
C6_SameOutcome ==
    /\ \A a, b \in Requesters :
          (th[a].pc = "done" /\ th[b].pc = "done" /\ th[a].fut = th[b].fut)
             => th[a].res = th[b].res
    /\ \A a \in Requesters :
          (th[a].pc = "done" /\ th[a].fut # 0) =>
             /\ th[a].res.kind \in Outcomes
             /\ th[a].res = future[th[a].fut].result

\* Two requesters shared a future whose build failed.
C6_Witness ==
    /\ th[1].pc = "done" /\ th[2].pc = "done"
    /\ th[1].fut = th[2].fut
    /\ th[1].fut # 0
    /\ th[1].res.kind = "error"

\* C7 (state part): the future a request awaits was created after the last
\* invalidation of its reference that preceded the request, and the result
\* the request returns is the one built for that future.
C7_FreshFuture ==
    \A q \in Requesters :
        th[q].fut # 0 =>
           /\ future[th[q].fut].ref = th[q].ref
           /\ future[th[q].fut].gen = th[q].gen
           /\ th[q].pc = "done" => th[q].res.build = TaskOf(th[q].fut)

\* C7 (step part): invalidate(r) removes the entry of r and leaves the
\* entries of the other references, and every future, as they were.
C7_OthersUntouched ==
    \A r \in Refs :
        invalidated'[r] # invalidated[r] =>
           /\ r \notin DOMAIN results'
           /\ DOMAIN results' = DOMAIN results \ {r}
           /\ \A x \in DOMAIN results' : results'[x] = results[x]
           /\ future' = future

\* C7: after invalidate(r) removed the future of r, the next request for r
\* gets a new future and with it a new invocation of the wrapped builder,
\* and the futures of other references are untouched.
C7_Rebuild == [](C7_FreshFuture) /\ [][C7_OthersUntouched]_vars

\* A reference was built, invalidated and requested again: the second
\* request returned the result of a second build.
C7_Witness ==
    /\ th[2].pc = "done"
    /\ th[1].ref = th[2].ref
    /\ invalidated[th[2].ref] = 1
    /\ th[2].gen = 1
    /\ th[1].fut = 1 /\ th[2].fut = 2
    /\ started[th[2].ref] = 2

\* C9 (state part): at most limit wrapped builds are in progress, and the
\* tokens taken are exactly those of the calls inside the limiter: a call
\* that returned, with a result or an error, holds none.
C9_AtMostN ==
    /\ Cardinality({t \in Threads : th[t].pc = "building"}) <= limit
    /\ semaphore <= limit
    /\ semaphore = Cardinality({t \in Threads : Holding(t)})

\* C9: with a limiter of N tokens at most N wrapped builds are in progress,
\* a token is released whenever a wrapped build returns, and a request that
\* waits for a token is eventually forwarded.
\* (Again and again no request waits, which gives for every thread t
\* WaitingToken(t) ~> ~WaitingToken(t).)
C9_Limiter ==
    /\ [](C9_AtMostN)
    /\ []<>(\A t \in Threads : ~WaitingToken(t))

\* One build holds the only token while the build of another reference
\* waits for it.
C9_Witness ==
    /\ limit = 1
    /\ semaphore = 1
    /\ \E t, u \in Threads :
          /\ th[t].pc = "building"
          /\ WaitingToken(u)
          /\ th[t].ref # th[u].ref

\* C10: the tokens held never exceed the number of distinct references being
\* built, and a requester that found an existing future acquires no token.
C10_TokensWithinRefs ==
    /\ semaphore <=
          Cardinality({th[t].ref : t \in {x \in Threads : Holding(x)}})
    /\ \A q \in Requesters : th[q].hit => th[q].acquired = 0

(***************************************************************************)
(* Properties of the publisher stack.                                      *)
(***************************************************************************)
\* The calls made before call p that carried the same digest.
EarlierSame(p) ==
    {q \in Callers : q < p /\ pub[q].pc # "idle"
                     /\ pub[q].digest = pub[p].digest}

\* C8: a Publish call invokes the inner publisher if and only if no earlier
\* call carried an artifact with the same digest, whatever the reference
\* strings; a later call with that digest returns what the first one got.
C8_PublishOncePerDigest ==
    \A p \in Callers :
        pub[p].pc # "idle" =>
           /\ pub[p].invoked <=> EarlierSame(p) = {}
           /\ \A q \in EarlierSame(p) :
                 /\ pub[p].fut = pub[q].fut
                 /\ (pub[p].pc = "done" /\ pub[q].pc = "done")
                       => pub[p].res = pub[q].res
           /\ pub[p].pc = "done" =>
                 /\ pub[p].res.kind \in PubOutcomes
                 /\ published[pub[p].res.call].digest = pub[p].digest

\* The second call carried the digest of the first under another reference
\* string and got the first call's reference; the third carried a new
\* artifact under the first reference string and was published afresh.
C8_Witness ==
    /\ \A p \in Callers : pub[p].pc = "done"
    /\ pub[1].digest = pub[2].digest /\ pub[1].ref # pub[2].ref
    /\ pub[2].res = pub[1].res /\ ~pub[2].invoked
    /\ pub[1].res.kind = "reference"
    /\ pub[3].digest # pub[1].digest /\ pub[3].ref = pub[1].ref
    /\ pub[3].invoked /\ pub[3].res # pub[1].res

(***************************************************************************)
(* Specifications of gobuild.                                              *)
(***************************************************************************)
MaxVersions == 2

\* Base images: a config with a PATH, and their layers.
BaseConfig(os, arch, env) ==
    [os |-> os, arch |-> arch, env |-> env, entrypoint |-> <<>>,
     author |-> "base"]

BaseImage(layers, os, arch, env) ==
    [kind |-> "image", mediaType |-> "docker.manifest.v2",
     layers |-> layers, config |-> BaseConfig(os, arch, env)]

ImageBase(l) ==
    BaseImage(l, "linux", "amd64", << <<"PATH", << <<"bin">> >> >> >>)

\* The reference and the base it is built on.
GoInputs ==
    {[kind |-> "build", s |-> <<"example.com", "app">>,
      base |-> ImageBase(<<"base1", "base2">>)],
     [kind |-> "build", s |-> <<"example.com", "cmd", "">>,
      base |-> ImageBase(<<>>)],
     [kind |-> "build", s |-> <<>>, base |-> ImageBase(<<"base1">>)],
     [kind |-> "build", s |-> <<"", "">>, base |-> ImageBase(<<>>)]}

\* Process environments for the metadata cache: enabled with and without
\* stable output directories, and disabled.
CacheEnvs ==
    { << <<"KO_CACHE_META", EnvVal("1")>>,
         <<"KO_STABLE_OUTPUT", EnvVal("1")>> >>,
      << <<"KO_CACHE_META", EnvVal("1")>> >>,
      << <<"KO_STABLE_OUTPUT", EnvVal("1")>> >> }

GoFresh ==
    /\ disk = <<>>
    /\ buildToDiff = <<>>
    /\ diffToDesc = <<>>
    /\ goOut = [kind |-> "none"]
    /\ written = <<>>
    /\ srcVer = 0

\* Builds of one reference on an image base, over and over, in one process
\* after the other, with whatever can go wrong in the metadata cache.
InitGo ==
    /\ osEnv \in CacheEnvs
    /\ goIn = [kind |-> "build", s |-> <<"example.com", "app">>,
               base |-> ImageBase(<<"base1">>)]
    /\ GoFresh
    /\ DriverIdle /\ BuildIdle /\ PublishIdle

GoNext ==
    \/ \E ver \in 1..MaxVersions, fault \in Faults : GoBuild(ver, fault)
    \/ NewGo

SpecGo == InitGo /\ [][GoNext]_vars

\* Builds of several references and bases, over and over, in one process
\* after the other; the compiler and the tarring of the binary can fail.
InitGoImage ==
    /\ osEnv \in CacheEnvs
    /\ goIn \in GoInputs
    /\ GoFresh
    /\ DriverIdle /\ BuildIdle /\ PublishIdle

GoImageNext ==
    \/ \E ver \in 1..MaxVersions, fault \in {"none", "compile", "tar"} :
          GoBuild(ver, fault)
    \/ NewGo

SpecGoImage == InitGoImage /\ [][GoImageNext]_vars

\* The longest environment list of a base image's config.
MaxEnv == 2

\* Entries of a base image's environment: PATH with one and with two
\* parts, PATH with the empty value, an entry without "=", and others.
BaseEnvEntries ==
    {<<"PATH", << <<"bin">> >> >>,
     <<"PATH", << <<"usr", "bin">>, <<"bin">> >> >>,
     <<"PATH", << <<>> >> >>,
     <<"PATH">>,
     <<"HOME", << <<"root">> >> >>,
     <<"KO_DATA_PATH", << <<"old">> >> >>}

BaseEnvs == UNION {[1..n -> BaseEnvEntries] : n \in 0..MaxEnv}

\* Builds of one reference on bases with every environment, without the
\* metadata cache.
InitGoEnv ==
    /\ osEnv = <<>>
    /\ \E env \in BaseEnvs :
          goIn = [kind |-> "build", s |-> <<"example.com", "app">>,
                  base |-> BaseImage(<<"base1">>, "linux", "amd64", env)]
    /\ GoFresh
    /\ DriverIdle /\ BuildIdle /\ PublishIdle

GoEnvNext ==
    \E ver \in 1..MaxVersions, fault \in {"none", "compile"} :
        GoBuild(ver, fault)

SpecGoEnv == InitGoEnv /\ [][GoEnvNext]_vars

\* The most children of a base index.
MaxChildren == 2

\* The children of a base index: images for two platforms, and an index.
ChildKinds == {"amd64", "arm", "nested"}

ChildPlatform(k) ==
    IF k = "amd64" THEN [os |-> "linux", arch |-> "amd64",
                         variant |-> NoVariant]
    ELSE IF k = "arm" THEN [os |-> "linux", arch |-> "arm",
                            variant |-> <<"v", 7>>]
    ELSE NoPlatform

\* The image base.Image gives for child i of kind k.
ChildImage(i, k) ==
    BaseImage(<< <<"base", k, i>> >>, "linux",
              IF k = "arm" THEN "arm" ELSE "amd64",
              << <<"PATH", << <<"bin">> >> >> >>)

\* The descriptor of child i of kind k in the base's index manifest.
Child(i, k) ==
    [digest |-> ImageDigest(ChildImage(i, k)),
     urls |-> <<"mirror", k, i>>,
     mediaType |-> IF k = "amd64" THEN "docker.manifest.v2"
                   ELSE IF k = "arm" THEN "oci.image.manifest.v1"
                   ELSE "oci.image.index.v1",
     annotations |-> <<"note", k, i>>,
     platform |-> ChildPlatform(k)]

\* A base index of media type t with children of the kinds ks.
IndexBase(t, ks) ==
    [kind |-> "index", mediaType |-> t,
     manifests |-> [i \in 1..Len(ks) |-> Child(i, ks[i])],
     images |-> [d \in {Child(i, ks[i]).digest : i \in 1..Len(ks)} |->
                    d[2]]]

IndexBases ==
    {IndexBase(t, ks) :
        t \in IndexTypes,
        ks \in UNION {[1..n -> ChildKinds] : n \in 0..MaxChildren}}

\* Builds of one reference on index bases, with and without the metadata
\* cache.
InitGoIndex ==
    /\ osEnv \in {<<>>, << <<"KO_CACHE_META", EnvVal("1")>>,
                          <<"KO_STABLE_OUTPUT", EnvVal("1")>> >>}
    /\ \E base \in IndexBases :
          goIn = [kind |-> "build", s |-> <<"example.com", "app">>,
                  base |-> base]
    /\ GoFresh
    /\ DriverIdle /\ BuildIdle /\ PublishIdle

GoIndexNext ==
    \/ \E ver \in 1..MaxVersions, fault \in {"none", "compile"} :
          GoBuild(ver, fault)
    \/ NewGo

SpecGoIndex == InitGoIndex /\ [][GoIndexNext]_vars

\* The longest environment of the calling process.
MaxCallerEnv == 2

\* Variables the caller may define: the ones build sets, and another.
CallerEnvEntries ==
    {<<"CGO_ENABLED", EnvVal("1")>>,
     <<"GOOS", EnvVal("darwin")>>,
     <<"GOARCH", EnvVal("386")>>,
     <<"GOARM", EnvVal("5")>>,
     <<"HOME", EnvVal("root")>>}

\* The platforms of the children built for: amd64, arm with the variants
\* v4, v7, v8 and one that is no version, and arm64 without a variant.
ToolchainPlatforms ==
    {[os |-> "linux", arch |-> "amd64", variant |-> NoVariant],
     [os |-> "linux", arch |-> "arm64", variant |-> NoVariant]}
    \cup {[os |-> "linux", arch |-> "arm", variant |-> v] :
             v \in {<<"v", 4>>, <<"v", 7>>, <<"v", 8>>, <<"x">>}}

\* A base index with one image for platform p.
PlatformBase(p) ==
    LET image == BaseImage(<<"base1">>, p.os, p.arch,
                           << <<"PATH", << <<"bin">> >> >> >>)
    IN  [kind |-> "index", mediaType |-> "oci.image.index.v1",
         manifests |-> <<[digest |-> ImageDigest(image),
                          urls |-> <<>>,
                          mediaType |-> "oci.image.manifest.v1",
                          annotations |-> <<>>,
                          platform |-> p]>>,
         images |-> (ImageDigest(image) :> image)]

\* Builds of one reference for one platform in every caller environment,
\* without the metadata cache.
InitGoToolchain ==
    /\ osEnv \in UNION {[1..n -> CallerEnvEntries] : n \in 0..MaxCallerEnv}
    /\ \E p \in ToolchainPlatforms :
          goIn = [kind |-> "build", s |-> <<"example.com", "app">>,
                  base |-> PlatformBase(p)]
    /\ GoFresh
    /\ DriverIdle /\ BuildIdle /\ PublishIdle

GoToolchainNext ==
    \E ver \in 1..MaxVersions, fault \in {"none", "compile"} :
        GoBuild(ver, fault)

SpecGoToolchain == InitGoToolchain /\ [][GoToolchainNext]_vars

\* The most entries of the kodata directory.
MaxEntries == 2

\* The kodata trees: kodata with up to MaxEntries entries, at most one of
\* them its real sub-directory sub; sub, and a directory ext outside of
\* kodata, with at most one entry each.  Symlinks lead to a file, to
\* kodata, to sub and to ext.
KoDataTrees ==
    LET links == {[kind |-> "link", to |-> t] :
                     t \in {"file", "kodata", "sub", "ext"}}
        inner == {<<>>} \cup {<<e>> : e \in links \cup {[kind |-> "file",
                                                         to |-> "file"]}}
        top == links \cup {[kind |-> "file", to |-> "file"],
                           [kind |-> "dir", to |-> "sub"]}
        tops == {es \in UNION {[1..n -> top] : n \in 0..MaxEntries} :
                    \A i, j \in 1..Len(es) :
                        (es[i].kind = "dir" /\ es[j].kind = "dir") => i = j}
    IN  {("kodata" :> k) @@ ("sub" :> s) @@ ("ext" :> x) :
            k \in tops, s \in inner, x \in inner}

InitGoTar ==
    /\ osEnv = <<>>
    /\ \E tree \in KoDataTrees : goIn = [kind |-> "kodata", tree |-> tree]
    /\ GoFresh
    /\ DriverIdle /\ BuildIdle /\ PublishIdle

SpecGoTar == InitGoTar /\ [][GoTarKoData]_vars

\* Two builds on a new gobuild with the metadata cache and stable output
\* directories, behind a limiter of one or two tokens.  The directory of
\* each binary is as an earlier process left it: missing, or with the
\* metadata of the binary of source version 1 or 2.
InitGoMirror ==
    LET meta(ver, l) ==
            [out |-> ver,
             btod |-> Encode(PutKey(<<>>, getBuildId(ver), l.diffid)),
             dtod |-> Encode(PutKey(<<>>, l.diffid, l.desc))]
        left(t) ==
            {<<>>} \cup
            {<<meta(ver, LayerFromOpener(tarBinary(appPath(MirrorRef(t)),
                                                   ver)))>> : ver \in 1..2}
        dirs(a, b) ==
            [f \in {MirrorFile(t) : t \in {1 : x \in Range(a)}
                                          \cup {2 : x \in Range(b)}} |->
                IF f = MirrorFile(1) /\ a # <<>> THEN a[1] ELSE b[1]]
    IN  /\ osEnv = << <<"KO_CACHE_META", EnvVal("1")>>,
                      <<"KO_STABLE_OUTPUT", EnvVal("1")>> >>
        /\ goIn = [kind |-> "builds"]
        /\ \E a \in left(1), b \in left(2) : disk = dirs(a, b)
        /\ buildToDiff = <<>>
        /\ diffToDesc = <<>>
        /\ goOut = [kind |-> "builds", pc |-> <<"wait", "wait">>,
                    in |-> <<FALSE, FALSE>>, thrown |-> FALSE]
        /\ written = <<>>
        /\ srcVer = 0
        /\ limit \in 1..MaxConcurrentBuilds
        /\ results = <<>>
        /\ future = <<>>
        /\ semaphore = 0
        /\ th = [t \in Threads |-> NewThread]
        /\ started = [r \in Refs |-> 0]
        /\ toolchain = [r \in Refs |-> 0]
        /\ invalidated = [r \in Refs |-> 0]
        /\ DriverIdle /\ PublishIdle

GoMirrorNext ==
    \/ \E t \in 1..2 : GoBuildStep(t)
    \/ \E t \in 1..2 : GoMapBegin(t)
    \/ \E t \in 1..2 : GoMapEnd(t)
    \/ \E t \in 1..2 : GoMapThrow(t)

SpecGoMirror == InitGoMirror /\ [][GoMirrorNext]_vars

(***************************************************************************)
(* Properties of gobuild.                                                  *)
(***************************************************************************)
\* The tar stream of a layer: a lazy layer's is made by its thunk from the
\* binary that is then at the thunk's path.
LayerTar(l) ==
    IF l.lazy THEN tarBinary(l.thunk.name, DirOf(disk, l.thunk.binary).out)
    ELSE l.tar

\* The names of the regular files of a tar stream, in order.
RegularFiles(t) ==
    LET regs == SelectSeq(t, LAMBDA h : h.type = "reg")
    IN  [i \in 1..Len(regs) |-> regs[i].name]

\* Path a is path b or one of its parents.
IsPrefix(a, b) == Len(a) <= Len(b) /\ SubSeq(b, 1, Len(a)) = a

\* A layer that holds the kodata tree and no file outside of it.
IsDataLayer(l) ==
    /\ ~l.lazy
    /\ l.tar # <<>>
    /\ \A i \in 1..Len(l.tar) :
          \/ IsPrefix(l.tar[i].name, kodataRoot)
          \/ IsPrefix(kodataRoot, l.tar[i].name)

\* A layer that holds the binary: one regular file under appDir.
IsBinaryLayer(l) ==
    /\ Len(RegularFiles(LayerTar(l))) = 1
    /\ IsPrefix(appDir, RegularFiles(LayerTar(l))[1])

\* C11: every image buildOne returns has the layers of its base followed by
\* exactly two layers, the data layer and then the binary layer, when the
\* binary layer is a lazy one of the metadata cache as when it was tarred.
C11_LayerOrder ==
    goOut.kind = "image" =>
        LET n == Len(goIn.base.layers)
        IN  /\ Len(goOut.res.layers) = n + 2
            /\ SubSeq(goOut.res.layers, 1, n) = goIn.base.layers
            /\ IsDataLayer(goOut.res.layers[n + 1])
            /\ ~IsBinaryLayer(goOut.res.layers[n + 1])
            /\ IsBinaryLayer(goOut.res.layers[n + 2])
            /\ ~IsDataLayer(goOut.res.layers[n + 2])
            /\ goOut.res.layers[n + 2].lazy = goOut.calls[1].hit

\* An image on a base of two layers whose binary layer came from the
\* metadata cache.
C11_Witness ==
    /\ goOut.kind = "image"
    /\ Len(goIn.base.layers) = 2
    /\ goOut.calls[1].hit
    /\ Len(goOut.res.layers) = 4
    /\ goOut.res.layers[4].lazy

\* The name the claim gives the binary: the last segment of the path, what
\* follows a trailing separator not being a segment, or ko-app without one.
ExpectedName(p) ==
    LET named == {i \in 1..Len(p) : p[i] # ""}
    IN  IF named = {} THEN "ko-app"
        ELSE p[CHOOSE i \in named : \A j \in named : j <= i]

PathEntries(env) ==
    {i \in 1..Len(env) : Len(env[i]) = 2 /\ env[i][1] = "PATH"}

\* C13: the environment of the image buildOne returns is the base's with
\* KO_DATA_PATH=/var/run/ko appended; a PATH entry of the base has /ko-app
\* appended to its value after a ":", a base without one gets PATH=/ko-app;
\* every other entry is unchanged and in its place.
C13_Env ==
    goOut.kind = "image" =>
        LET b == goIn.base.config.env
            e == goOut.res.config.env
            ps == PathEntries(b)
            p == IF ps = {} THEN Len(b) + 1
                 ELSE CHOOSE i \in ps : \A j \in ps : i <= j
        IN  /\ Len(e) = (IF ps = {} THEN Len(b) + 2 ELSE Len(b) + 1)
            /\ e[Len(e)] = <<"KO_DATA_PATH", << <<"var", "run", "ko">> >> >>
            /\ e[p] = <<"PATH", (IF ps = {} THEN <<>> ELSE b[p][2])
                                \o << <<"ko-app">> >> >>
            /\ \A j \in 1..Len(b) : j # p => e[j] = b[j]

\* An image on a base whose environment has an entry before its PATH entry.
C13_Witness ==
    /\ goOut.kind = "image"
    /\ Len(goIn.base.config.env) = 2
    /\ PathEntries(goIn.base.config.env) = {2}
    /\ goOut.res.config.env[2][2] = << <<"bin">>, <<"ko-app">> >>
    /\ Len(goOut.res.config.env) = 3

\* The children of the base index of the call, and those of them that are
\* not single-image manifests.
BaseManifests == goIn.base.manifests

NotImages ==
    {i \in 1..Len(BaseManifests) :
        BaseManifests[i].mediaType \notin
            {"oci.image.manifest.v1", "docker.manifest.v2"}}

\* C14: on a base index whose children are all image manifests, buildAll
\* returns (when no build fails) an index of the base's media type with one
\* manifest per base manifest, in order; manifest i has the urls, media
\* type, annotations and platform of base descriptor i and the digest of
\* the image built for that platform on that child.
C14_Index ==
    (goIn.base.kind = "index" /\ goOut.kind # "none" /\ NotImages = {}) =>
        /\ goOut.fault = "none" => goOut.kind = "index"
        /\ goOut.kind = "index" =>
              /\ goOut.res.mediaType = goIn.base.mediaType
              /\ Len(goOut.res.manifests) = Len(BaseManifests)
              /\ Len(goOut.calls) = Len(BaseManifests)
              /\ \A i \in 1..Len(BaseManifests) :
                    LET m == goOut.res.manifests[i]
                        d == BaseManifests[i]
                        child == goIn.base.images[d.digest]
                        img == m.digest[2]
                    IN  /\ m.urls = d.urls
                        /\ m.mediaType = d.mediaType
                        /\ m.annotations = d.annotations
                        /\ m.platform = d.platform
                        /\ m.digest[1] = "sha256"
                        /\ img.kind = "image"
                        /\ Len(img.layers) = Len(child.layers) + 2
                        /\ SubSeq(img.layers, 1, Len(child.layers)) =
                               child.layers
                        /\ img.config.entrypoint # <<>>
                        /\ goOut.calls[i].platform = d.platform

\* An index built on a base with an amd64 child and then an arm child.
C14_Witness ==
    /\ goIn.base.kind = "index"
    /\ goOut.kind = "index"
    /\ Len(goOut.res.manifests) = 2
    /\ goOut.res.manifests[1].platform.arch = "amd64"
    /\ goOut.res.manifests[2].platform.arch = "arm"
    /\ goOut.res.manifests[1].digest # goOut.res.manifests[2].digest

\* C15: on a base index with a child that is not a single-image manifest,
\* buildAll returns an error and no index, wherever that child is and
\* after the children before it were built.
C15_Nested ==
    (goIn.base.kind = "index" /\ goOut.kind # "none" /\ NotImages # {}) =>
        /\ goOut.kind = "error"
        /\ goOut.res = [kind |-> "none"]
        /\ \A i \in NotImages : Len(goOut.calls) < i
        /\ goOut.fault = "none" =>
              \E i \in NotImages : Len(goOut.calls) = i - 1

\* An error for a nested index that comes after a child that was built.
C15_Witness ==
    /\ goIn.base.kind = "index"
    /\ NotImages = {Len(BaseManifests)}
    /\ Len(BaseManifests) >= 2
    /\ goOut.kind = "error"
    /\ goOut.fault = "none"
    /\ Len(goOut.calls) = Len(BaseManifests) - 1

\* The image buildOne returns for the call's reference and base when the
\* metadata cache is disabled, for the binary of source version ver.
UncachedImage(ver) ==
    [kind |-> "image",
     mediaType |-> goIn.base.mediaType,
     layers |-> goIn.base.layers \o
                << LayerFromOpener(<<[name |-> kodataRoot, type |-> "dir",
                                      mode |-> "0555", content |-> 0]>>),
                   LayerFromOpener(tarBinary(appPath(goIn.s), ver)) >>,
     config |-> [goIn.base.config EXCEPT
                    !.entrypoint = <<appPath(goIn.s)>>,
                    !.env = ConfigEnv(@),
                    !.author = "github.com/google/ko"]]

CacheOn ==
    \E i \in 1..Len(osEnv) :
        osEnv[i][1] = "KO_CACHE_META" /\ osEnv[i][2] # << <<>> >>

\* C16: whatever fails in the metadata cache, buildOne returns an image;
\* a lookup that fails (no build-id, a mapping file that is missing or
\* cannot be read when it is read, a build-id or a diff-id that is not
\* recorded) makes it tar the binary, a write that fails is logged, and
\* the image is then the one it returns with the cache disabled.
C16_CacheFailure ==
    (goOut.kind # "none" /\ goOut.fault # "compile") =>
        /\ goOut.kind = "image"
        /\ ~CacheOn => (~goOut.calls[1].hit /\ ~goOut.calls[1].logged)
        /\ ~goOut.calls[1].hit => goOut.res = UncachedImage(goOut.ver)
        /\ goOut.fault = "lookup.buildid" => ~goOut.calls[1].hit
        /\ (goOut.fault = "lookup.btod" /\ goOut.calls[1].cold)
              => ~goOut.calls[1].hit
        /\ (CacheOn /\ goOut.fault \in {"write.open", "write.encode"}
            /\ ~goOut.calls[1].hit) => goOut.calls[1].logged

\* An image returned although writing the metadata failed half way, on
\* files that an earlier call had written.
C16_Witness ==
    /\ goOut.kind = "image"
    /\ goOut.fault = "write.encode"
    /\ goOut.calls[1].logged
    /\ goOut.calls[1].file \in DOMAIN written
    /\ goOut.res = UncachedImage(goOut.ver)

\* C18: right after cacheLayerMeta has written the metadata of a binary
\* with success, buildLazyLayer for the same path and binary, starting
\* from empty in-memory maps, gives a lazy layer with the diff-id and the
\* descriptor that were written, whatever was written to the two files
\* before; and every lazy layer a call got from files it had to read has
\* the diff-id and descriptor of the tarred binary.
C18_Recover ==
    goOut.kind # "none" =>
        \A i \in 1..Len(goOut.calls) :
            LET c == goOut.calls[i]
                r == buildLazyLayer([disk |-> disk, btd |-> <<>>,
                                     dtd |-> <<>>],
                                    appPath(goIn.s), c.file, "none")
                real == LayerFromOpener(tarBinary(appPath(goIn.s),
                                                  goOut.ver))
            IN  /\ c.wrote # <<>> =>
                      /\ c.wrote[1].buildid =
                             getBuildId(DirOf(disk, c.file).out)
                      /\ ~r.err
                      /\ r.layer.lazy
                      /\ r.layer.diffid = c.wrote[1].diffid
                      /\ r.layer.desc = c.wrote[1].desc
                /\ (c.hit /\ c.cold /\ goOut.kind = "image") =>
                      LET l == goOut.res.layers[Len(goOut.res.layers)]
                      IN  /\ l.lazy
                          /\ l.diffid = real.diffid
                          /\ l.desc = real.desc

\* A write that was shorter than the file it went to: what an earlier
\* write left beyond it is still there.
C18_Witness ==
    /\ goOut.kind = "image"
    /\ goOut.calls[1].wrote # <<>>
    /\ LET c == DirOf(disk, goOut.calls[1].file).btod
       IN  /\ c # NoFile
           /\ ObjectEnd(c, 2) \notin {0, Len(c)}

\* The places where the caller's environment defines key.
CallerDefs(key) ==
    {i \in 1..Len(osEnv) : Len(osEnv[i]) = 2 /\ osEnv[i][1] = key}

\* The value the caller's environment gives key: its last definition.
CallerValue(key) ==
    IF CallerDefs(key) = {} THEN <<>>
    ELSE osEnv[CHOOSE i \in CallerDefs(key) :
                   \A j \in CallerDefs(key) : j <= i][2]

\* The value build computes for key from platform p, <<>> when it sets
\* none: GOARM only for an arm variant v5 or higher, at most 7.
AdapterValue(p, key) ==
    IF key = "CGO_ENABLED" THEN << <<"0">> >>
    ELSE IF key = "GOOS" THEN << <<p.os>> >>
    ELSE IF key = "GOARCH" THEN << <<p.arch>> >>
    ELSE IF key = "GOARM" /\ p.arch \in {"arm", "arm64"}
            /\ Len(p.variant) = 2 /\ p.variant[1] = "v"
    THEN (IF p.variant[2] < 5 THEN <<>>
          ELSE IF p.variant[2] = 5 THEN << <<"5">> >>
          ELSE IF p.variant[2] = 6 THEN << <<"6">> >>
          ELSE << <<"7">> >>)
    ELSE <<>>

EnvKeys == {"CGO_ENABLED", "GOOS", "GOARCH", "GOARM", "HOME"}

\* The calls of the last Build in which the compiler was run.
Compiled ==
    IF goOut.kind = "none" THEN {}
    ELSE {i \in 1..Len(goOut.calls) : goOut.calls[i].env # <<>>}

\* C20 as stated: the compiler sees the value build computed for each of
\* the variables build sets, whatever the caller's environment defines,
\* and the caller's value for every other variable.
C20_AdapterWins ==
    \A i \in Compiled, key \in EnvKeys :
        Effective(goOut.calls[i].env, key) =
            IF AdapterValue(goOut.calls[i].platform, key) # <<>>
            THEN AdapterValue(goOut.calls[i].platform, key)
            ELSE CallerValue(key)

\* C20: the values build computes from the platform are defaults.  The
\* compiler sees the caller's value for every variable the caller's
\* environment defines, CGO_ENABLED, GOOS, GOARCH and GOARM included, and
\* the value build computed only for a variable the caller does not define.
C20_CallerWins ==
    \A i \in Compiled, key \in EnvKeys :
        Effective(goOut.calls[i].env, key) =
            IF CallerDefs(key) # {} THEN CallerValue(key)
            ELSE AdapterValue(goOut.calls[i].platform, key)

\* A compile for linux/arm/v7 by a caller that defines GOOS and nothing
\* else: the compiler sees the caller's GOOS and build's GOARM.
C20_Witness ==
    /\ Compiled # {}
    /\ goOut.calls[1].platform.variant = <<"v", 7>>
    /\ CallerDefs("GOOS") # {}
    /\ CallerDefs("GOARM") = {}
    /\ Effective(goOut.calls[1].env, "GOOS") = << <<"darwin">> >>
    /\ Effective(goOut.calls[1].env, "GOARM") = << <<"7">> >>

\* The calls of the last Build in which cacheLayerMeta was called and
\* returned without error.
MetaCached ==
    IF goOut.kind = "none" THEN {}
    ELSE {i \in 1..Len(goOut.calls) :
             /\ goOut.calls[i].env # <<>>
             /\ goOut.kind # "error"
             /\ CacheOn
             /\ ~goOut.calls[i].hit
             /\ ~goOut.calls[i].logged}

\* C24: after cacheLayerMeta has returned without error for a file, the
\* maps of g hold under that file the build-id -> diff-id and the
\* diff-id -> descriptor of the layer, whether or not g had maps for the
\* file before the call.
C24_MirrorHolds ==
    \A i \in MetaCached :
        LET file == goOut.calls[i].file
            real == LayerFromOpener(tarBinary(appPath(goIn.s), goOut.ver))
        IN  /\ file \in DOMAIN buildToDiff
            /\ file \in DOMAIN diffToDesc
            /\ getBuildId(goOut.ver) \in DOMAIN buildToDiff[file]
            /\ buildToDiff[file][getBuildId(goOut.ver)] = real.diffid
            /\ real.diffid \in DOMAIN diffToDesc[file]
            /\ diffToDesc[file][real.diffid] = real.desc

StableOutput ==
    \E i \in 1..Len(osEnv) :
        osEnv[i][1] = "KO_STABLE_OUTPUT" /\ osEnv[i][2] # << <<>> >>

\* The directories of the binaries of the calls of the last Build in which
\* the compiler was run.
ArtifactDirs ==
    IF goOut.kind = "none" THEN {}
    ELSE {goOut.calls[i].file :
             i \in {j \in 1..Len(goOut.calls) : goOut.calls[j].env # <<>>}}

\* C23: without KO_STABLE_OUTPUT no directory that build made is left when
\* buildOne has returned, whether the compiler failed, the tarring of the
\* binary failed or an image was returned; with KO_STABLE_OUTPUT the
\* directory of a binary is there when buildOne has returned and no step
\* removes a directory.
C23_TempDirs ==
    /\ [](/\ ~StableOutput => disk = <<>>
          /\ StableOutput => \A dir \in ArtifactDirs : dir \in DOMAIN disk)
    /\ [][StableOutput => \A dir \in DOMAIN disk : dir \in DOMAIN disk']_vars

\* Without KO_STABLE_OUTPUT: an error because the binary could not be
\* tarred, after the compiler had made the binary, and no directory left.
C23_Witness ==
    /\ ~StableOutput
    /\ goOut.kind = "error"
    /\ goOut.fault = "tar"
    /\ ArtifactDirs # {}
    /\ disk = <<>>

\* C27: the binary that the thunk of a lazy binary layer reads is there
\* when buildOne has returned the image; with the metadata cache on and
\* without KO_STABLE_OUTPUT no lookup hits and no binary layer is lazy.
C27_ThunkFile ==
    goOut.kind = "image" =>
        LET l == goOut.res.layers[Len(goOut.res.layers)]
        IN  /\ l.lazy =>
                  /\ l.thunk.binary \in DOMAIN disk
                  /\ disk[l.thunk.binary].out # 0
                  /\ l.thunk.binary = goOut.calls[1].file
            /\ (CacheOn /\ ~StableOutput) =>
                  (~l.lazy /\ ~goOut.calls[1].hit)

\* A lazy binary layer in a returned image, with its binary on disk.
C27_Witness ==
    /\ goOut.kind = "image"
    /\ goOut.res.layers[Len(goOut.res.layers)].lazy
    /\ goOut.calls[1].hit
    /\ StableOutput
    /\ disk[goOut.calls[1].file].out = goOut.ver

\* The tar streams of the state: the stream tarKoData returned, and the
\* streams of the layers buildOne added to the image it returned.
TarStreams ==
    IF goOut.kind = "tar" THEN {goOut.tar}
    ELSE IF goOut.kind = "image" /\ goOut.res.kind = "image"
    THEN {LayerTar(goOut.res.layers[i]) :
             i \in (Len(goOut.res.layers) - 1)..Len(goOut.res.layers)}
    ELSE {}

\* Every regular file of stream t has mode 0555 and comes after an entry
\* of a directory, of mode 0555, for each of its parent directories.
ParentsFirst(t) ==
    \A i \in 1..Len(t) :
        t[i].type = "reg" =>
            /\ t[i].mode = "0555"
            /\ \A n \in 1..(Len(t[i].name) - 1) :
                  \E j \in 1..(i - 1) :
                      /\ t[j].type = "dir"
                      /\ t[j].mode = "0555"
                      /\ t[j].name = SubSeq(t[i].name, 1, n)

\* C22: in every tar stream, of the binary layer and of the data layer,
\* every regular file has mode 0555 and comes after entries of mode 0555
\* for each of its parent directories, the real sub-directories of kodata
\* and the parents of /var/run/ko among them.
C22_ParentsFirst == \A t \in TarStreams : ParentsFirst(t)

\* C26: a call of tarKoData ends, whatever the finite kodata tree is,
\* symlinks that lead back to a directory under walk included.
C26_WalkEnds ==
    (goIn.kind = "kodata" /\ goOut.kind # "none") => goOut.kind = "tar"

\* The goroutines whose resolveFile returned an error.
FailedResolution == {id \in DOMAIN ch : ch[id] = "fatal"}

\* The goroutines that offer, or have handed over, the bytes of their
\* document.
Offered == {id \in DOMAIN ch : ch[id] = "send"} \cup Range(emitted)

\* C25: the entry of a file in the file-to-references map is stored before
\* the bytes of its document are offered to the emitter, so it is there
\* when they are written; and no goroutine whose resolution failed stores
\* an entry.
C25_StoreFirst ==
    /\ [](\A id \in Offered : received[id] \in DOMAIN sm)
    /\ [](\A f \in DOMAIN sm : sm[f] \notin FailedResolution)
    /\ [][emitted' # emitted =>
              received[emitted'[Len(emitted')]] \in DOMAIN sm]_vars

\* A document was written while the resolution of another file failed.
C25_Witness ==
    /\ emitted # <<>>
    /\ received[emitted[1]] \in DOMAIN sm
    /\ FailedResolution # {}

\* The builds that are inside a read or an insert on a map of g.
InMapAccess ==
    IF goOut.kind = "builds"
    THEN {t \in DOMAIN goOut.in : goOut.in[t]}
    ELSE {}

\* C21: the maps buildToDiff and diffToDesc of a gobuild are protected by
\* a mutex: with a limiter of more than one token, no read or insert on
\* them by one build overlaps a read or insert by another build.
C21_MirrorMutex ==
    limit > 1 => Cardinality(InMapAccess) <= 1

====
